---- MODULE Spec2Model ----
(***************************************************************************)
(* Model of the local-remote synchronisation engine of sage-notes:         *)
(*   - the commit scheduler of src/utils/githubSync.ts                     *)
(*     (scheduleCommit, commitPendingChange, commitAllPendingChanges,      *)
(*     commitFile);                                                        *)
(*   - the content tracker of src/utils/fileTracker.ts                     *)
(*     (initializeTracking, status, commit) and the full download          *)
(*     syncFromGitHub of the same file;                                    *)
(*   - the sync orchestrator of src/utils/syncManager.ts                   *)
(*     (syncFile, performSync, performFullSync).                           *)
(* Every await of the source is a step boundary: between two steps of one  *)
(* asynchronous function any other handler or the environment may run.     *)
(***************************************************************************)
EXTENDS Naturals, Integers, FiniteSets, Sequences, TLC

(***************************************************************************)
(* Bounds of the model.                                                    *)
(***************************************************************************)
MaxSchedules == 2
MaxRemoteChanges == 1
MaxEdits == 1
MaxSyncs == 2
MaxPulls == 1
MaxCalls == 2
MaxRenames == 2
MaxStarts == 2

Slots == {1, 2}

Paths == {1, 2}
Contents == {1, 2}

(***************************************************************************)
(* Values.  A local file that does not exist has content NoContent; an     *)
(* undefined sha is NoSha.  The remote assigns a content its blob sha      *)
(* (ShaOf, injective) and transports contents base64-encoded.              *)
(***************************************************************************)
NoContent == 0
NoSha == 0
ShaBase == 10
B64Base == 20
ShaOf(c) == ShaBase + c
encodeBase64(c) == B64Base + c
decodeBase64(b) == b - B64Base

Absent == [sha |-> NoSha, content |-> NoContent]
NoPending == [content |-> NoContent, timeout |-> 0, sid |-> 0]
NoEvent == [op |-> "none", path |-> 0, ok |-> TRUE, by |-> "none", slot |-> 0, end |-> "no"]

VARIABLES
    \* ---- environment -------------------------------------------------
    remote,           \* remote store: path -> [sha, content(base64)] or Absent
    local,            \* local file system: path -> content or NoContent
    token,            \* the access token is stored
    repoUrl,          \* the repository URL is stored
    nRemote,          \* number of remote changes made by other devices
    nEdits,           \* number of local edits made by the user
    \* ---- commit scheduler (githubSync.ts) ----------------------------
    pendingChanges,   \* path -> [content, timeout, sid] or NoPending
    timers,           \* live (armed, uncancelled, unfired) timers
    nextTimer,        \* id of the next timer / scheduleCommit call
    activeCommits,    \* set of paths
    fileMetadata,     \* path -> sha or NoSha
    commits,          \* sequence of all commitFile invocations
    flushes,          \* the commitAllPendingChanges invocations awaiting their writes
    scheduled,        \* history: sequence of scheduleCommit calls
    replaced,         \* history: calls followed by another one while pending
    \* ---- tracker (fileTracker.ts) ------------------------------------
    lastCommitFiles,  \* path -> [sha, content] or Absent
    \* ---- orchestrator (syncManager.ts) -------------------------------
    isSyncing,
    runs,             \* slot -> invocation of performSync / performFullSync
    nSyncs,           \* number of sync invocations so far
    \* ---- syncFromGitHub (fileTracker.ts) -----------------------------
    pull,             \* the invocation of syncFromGitHub
    nPulls,           \* number of syncFromGitHub invocations so far
    \* ---- the tracking table on disk (fileTracker.ts) ------------------
    calls,            \* caller -> invocation of initializeTracking / tail of commit
    nCalls,           \* number of such invocations so far
    trackingFile,     \* content of TRACKING_FILE: path -> [sha, content] or Absent
    load,             \* position of the loadTrackingData() started at import
    \* ---- commitFile as the editor calls it for a rename ----------------
    renaming,         \* the invocation of commitFile({path, content, oldPath, oldFileSha})
    nRenames,         \* number of such invocations so far
    reports,          \* history: the errors thrown to the caller, with what had happened
    \* ---- scheduleCommit that reads the remote first (fileTracker.ts) --
    arming,           \* the invocations of the asynchronous scheduleCommit
    \* ---- background sync (syncManager.ts) ------------------------------
    syncInterval,     \* handle of the periodic timer, or NoHandle
    appStateSubscription, \* handle of the app-state listener, or NoHandle
    intervals,        \* the live periodic timers
    subscriptions,    \* the live app-state listeners
    nextHandle,       \* the handle the next setInterval / addEventListener returns
    \* ---- observation --------------------------------------------------
    ev                \* the I/O effect of the last step

envVars == <<remote, local, token, repoUrl, nRemote, nEdits>>
schedVars == <<pendingChanges, timers, nextTimer, activeCommits, fileMetadata,
               commits, flushes, scheduled, replaced>>
trackVars == <<lastCommitFiles>>
syncVars == <<isSyncing, runs, nSyncs>>
pullVars == <<pull, nPulls>>
storeVars == <<calls, nCalls, trackingFile, load>>
renameVars == <<renaming, nRenames, reports>>
asyncVars == <<arming>>
bgVars == <<syncInterval, appStateSubscription, intervals, subscriptions, nextHandle>>
vars == <<envVars, schedVars, trackVars, syncVars, pullVars, storeVars, asyncVars, bgVars,
          renameVars, ev>>

Event(op, p, ok, by, s, end) ==
    [op |-> op, path |-> p, ok |-> ok, by |-> by, slot |-> s, end |-> end]

(***************************************************************************)
(* The remote store (GitHub contents API).                                 *)
(***************************************************************************)
RemoteSha(p) == remote[p].sha
RemoteExists(p) == remote[p] # Absent
\* PUT succeeds only when the caller's believed sha is the current one
\* (no sha for a path that does not exist).
PutAccepted(p, sha) == sha = RemoteSha(p)
Stored(c) == [sha |-> ShaOf(c), content |-> encodeBase64(c)]

(***************************************************************************)
(* Commit scheduler                                                        *)
(***************************************************************************)
InFlightPcs == {"get", "put"}

\* commitFile up to its first await: activeCommits.add(fullPath)
\* (known: the sha remembered for the path when the invocation starts;
\* at: for an invocation started by commitAllPendingChanges, the number of
\* the next scheduleCommit call at that moment)
StartCommit(cs, p, c, sid, via) ==
    Append(cs, [path |-> p, content |-> c, sid |-> sid, via |-> via,
                pc |-> "get", sha |-> NoSha, known |-> fileMetadata[p],
                at |-> IF via = "flush" THEN nextTimer ELSE 0])

\* scheduleCommit that re-arms the timer of an existing entry without
\* replacing its content
scheduleCommit_keepsContent(p, c) ==
    /\ nextTimer <= MaxSchedules
    /\ timers' = {t \in timers : t.path # p \/ pendingChanges[p] = NoPending
                                  \/ t.id # pendingChanges[p].timeout}
                    \cup {[id |-> nextTimer, path |-> p]}
    /\ pendingChanges' = [pendingChanges EXCEPT
                            ![p] = IF pendingChanges[p] = NoPending
                                   THEN [content |-> c, timeout |-> nextTimer,
                                         sid |-> nextTimer]
                                   ELSE [pendingChanges[p] EXCEPT !.timeout = nextTimer]]
    /\ nextTimer' = nextTimer + 1
    /\ scheduled' = Append(scheduled, [path |-> p, content |-> c])
    /\ replaced' = IF pendingChanges[p] # NoPending
                   THEN replaced \cup {pendingChanges[p].sid}
                   ELSE replaced
    /\ UNCHANGED <<activeCommits, fileMetadata, commits, flushes>>
    /\ UNCHANGED <<envVars, trackVars, syncVars, pullVars, renameVars, storeVars, asyncVars, bgVars, ev>>

\* scheduleCommit that does not clear the timeout of the existing entry
scheduleCommit_noClear(p, c) ==
    /\ nextTimer <= MaxSchedules
    /\ timers' = timers \cup {[id |-> nextTimer, path |-> p]}
    /\ pendingChanges' = [pendingChanges EXCEPT
                            ![p] = [content |-> c, timeout |-> nextTimer,
                                    sid |-> nextTimer]]
    /\ nextTimer' = nextTimer + 1
    /\ scheduled' = Append(scheduled, [path |-> p, content |-> c])
    /\ replaced' = IF pendingChanges[p] # NoPending
                   THEN replaced \cup {pendingChanges[p].sid}
                   ELSE replaced
    /\ UNCHANGED <<activeCommits, fileMetadata, commits, flushes>>
    /\ UNCHANGED <<envVars, trackVars, syncVars, pullVars, renameVars, storeVars, asyncVars, bgVars, ev>>

\* scheduleCommit(path, content)
scheduleCommit(p, c) ==
    /\ nextTimer <= MaxSchedules
    /\ timers' = {t \in timers : t.path # p \/ pendingChanges[p] = NoPending
                                  \/ t.id # pendingChanges[p].timeout}
                    \cup {[id |-> nextTimer, path |-> p]}
    /\ pendingChanges' = [pendingChanges EXCEPT
                            ![p] = [content |-> c, timeout |-> nextTimer,
                                    sid |-> nextTimer]]
    /\ nextTimer' = nextTimer + 1
    /\ scheduled' = Append(scheduled, [path |-> p, content |-> c])
    /\ replaced' = IF pendingChanges[p] # NoPending
                   THEN replaced \cup {pendingChanges[p].sid}
                   ELSE replaced
    /\ UNCHANGED <<activeCommits, fileMetadata, commits, flushes>>
    /\ UNCHANGED <<envVars, trackVars, syncVars, pullVars, renameVars, storeVars, asyncVars, bgVars, ev>>

\* commitPendingChange that leaves the entry in pendingChanges
commitPendingChange_keepsEntry(t) ==
    /\ t \in timers
    /\ timers' = timers \ {t}
    /\ IF pendingChanges[t.path] = NoPending
       THEN UNCHANGED <<pendingChanges, commits, activeCommits>>
       ELSE /\ pendingChanges' = pendingChanges
            /\ commits' = StartCommit(commits, t.path,
                                      pendingChanges[t.path].content,
                                      pendingChanges[t.path].sid, "timer")
            /\ activeCommits' = activeCommits \cup {t.path}
    /\ UNCHANGED <<nextTimer, fileMetadata, flushes, scheduled, replaced>>
    /\ UNCHANGED <<envVars, trackVars, syncVars, pullVars, renameVars, storeVars, asyncVars, bgVars, ev>>

\* the timer callback: commitPendingChange(path)
commitPendingChange(t) ==
    /\ t \in timers
    /\ timers' = timers \ {t}
    /\ IF pendingChanges[t.path] = NoPending
       THEN UNCHANGED <<pendingChanges, commits, activeCommits>>
       ELSE /\ pendingChanges' = [pendingChanges EXCEPT ![t.path] = NoPending]
            /\ commits' = StartCommit(commits, t.path,
                                      pendingChanges[t.path].content,
                                      pendingChanges[t.path].sid, "timer")
            /\ activeCommits' = activeCommits \cup {t.path}
    /\ UNCHANGED <<nextTimer, fileMetadata, flushes, scheduled, replaced>>
    /\ UNCHANGED <<envVars, trackVars, syncVars, pullVars, renameVars, storeVars, asyncVars, bgVars, ev>>

\* commitFile: failure path (catch, rethrow, finally)
CommitFails(i) ==
    /\ commits' = [commits EXCEPT ![i].pc = "failed", ![i].sha = NoSha]
    /\ activeCommits' = activeCommits \ {commits[i].path}
    /\ UNCHANGED <<fileMetadata, remote>>

\* commitFile: getToken(), then GET of the current file metadata
commitFile_get(i) ==
    /\ i \in DOMAIN commits
    /\ commits[i].pc = "get"
    /\ \E net \in BOOLEAN :
         IF ~token \/ ~net
         THEN CommitFails(i)
         ELSE /\ commits' = [commits EXCEPT ![i].pc = "put",
                                            ![i].sha = RemoteSha(commits[i].path)]
              /\ fileMetadata' = IF RemoteExists(commits[i].path)
                                 THEN [fileMetadata EXCEPT ![commits[i].path] =
                                           RemoteSha(commits[i].path)]
                                 ELSE fileMetadata
              /\ UNCHANGED <<activeCommits, remote>>
    /\ UNCHANGED <<pendingChanges, timers, nextTimer, flushes, scheduled, replaced>>
    /\ UNCHANGED <<local, token, repoUrl, nRemote, nEdits, trackVars, syncVars, pullVars, renameVars, storeVars, asyncVars, bgVars, ev>>

\* commitFile: PUT of the content with the sha just read
commitFile_put(i) ==
    /\ i \in DOMAIN commits
    /\ commits[i].pc = "put"
    /\ \E net \in BOOLEAN :
         IF ~net \/ ~PutAccepted(commits[i].path, commits[i].sha)
         THEN CommitFails(i)
         ELSE /\ remote' = [remote EXCEPT ![commits[i].path] =
                                Stored(decodeBase64(encodeBase64(commits[i].content)))]
              /\ fileMetadata' = [fileMetadata EXCEPT ![commits[i].path] =
                                      ShaOf(commits[i].content)]
              /\ commits' = [commits EXCEPT ![i].pc = "done"]
              /\ activeCommits' = activeCommits \ {commits[i].path}
    /\ UNCHANGED <<pendingChanges, timers, nextTimer, flushes, scheduled, replaced>>
    /\ UNCHANGED <<local, token, repoUrl, nRemote, nEdits, trackVars, syncVars, pullVars, renameVars, storeVars, asyncVars, bgVars, ev>>

\* The paths of a set in the order Object.keys lists them
RECURSIVE KeysOf(_)
KeysOf(S) ==
    IF S = {} THEN <<>>
    ELSE LET p == CHOOSE x \in S : \A y \in S : x <= y
         IN <<p>> \o KeysOf(S \ {p})

RECURSIVE StartAll(_, _)
StartAll(cs, ps) ==
    IF ps = <<>> THEN cs
    ELSE StartAll(StartCommit(cs, Head(ps), pendingChanges[Head(ps)].content,
                              pendingChanges[Head(ps)].sid, "flush"),
                  Tail(ps))

\* The record of one commitAllPendingChanges invocation: the commitFile
\* invocations it started.
FlushOf(paths) ==
    [cids |-> (Len(commits) + 1)..(Len(commits) + Cardinality(paths))]

\* the invocations awaiting their writes after a call for the given paths
\* (Promise.all of no promise resolves in the same turn of the event loop)
Awaiting(paths) ==
    IF paths = {} THEN flushes ELSE flushes \cup {FlushOf(paths)}

\* commitAllPendingChanges that leaves the entries in pendingChanges
commitAllPendingChanges_keepsPending ==
    LET paths == {p \in Paths : pendingChanges[p] # NoPending}
    IN /\ timers' = {t \in timers : t.path \notin paths
                                    \/ t.id # pendingChanges[t.path].timeout}
       /\ pendingChanges' = pendingChanges
       /\ commits' = StartAll(commits, KeysOf(paths))
       /\ activeCommits' = activeCommits \cup paths
       /\ flushes' = Awaiting(paths)
       /\ UNCHANGED <<nextTimer, fileMetadata, scheduled, replaced>>
       /\ UNCHANGED <<envVars, trackVars, syncVars, pullVars, renameVars, storeVars, asyncVars, bgVars, ev>>

\* commitAllPendingChanges up to its await Promise.all
commitAllPendingChanges ==
    LET paths == {p \in Paths : pendingChanges[p] # NoPending}
    IN /\ timers' = {t \in timers : t.path \notin paths
                                    \/ t.id # pendingChanges[t.path].timeout}
       /\ pendingChanges' = [p \in Paths |-> NoPending]
       /\ commits' = StartAll(commits, KeysOf(paths))
       /\ activeCommits' = activeCommits \cup paths
       /\ flushes' = Awaiting(paths)
       /\ UNCHANGED <<nextTimer, fileMetadata, scheduled, replaced>>
       /\ UNCHANGED <<envVars, trackVars, syncVars, pullVars, renameVars, storeVars, asyncVars, bgVars, ev>>

\* commitAllPendingChanges returning without waiting for its writes
flushResolves_early(f) ==
    /\ f \in flushes
    /\ flushes' = flushes \ {f}
    /\ UNCHANGED <<pendingChanges, timers, nextTimer, activeCommits, fileMetadata,
                   commits, scheduled, replaced>>
    /\ UNCHANGED <<envVars, trackVars, syncVars, pullVars, renameVars, storeVars, asyncVars, bgVars, ev>>

\* commitAllPendingChanges: Promise.all settles and the invocation returns
flushResolves(f) ==
    /\ f \in flushes
    /\ \A i \in f.cids : commits[i].pc \notin InFlightPcs
    /\ flushes' = flushes \ {f}
    /\ UNCHANGED <<pendingChanges, timers, nextTimer, activeCommits, fileMetadata,
                   commits, scheduled, replaced>>
    /\ UNCHANGED <<envVars, trackVars, syncVars, pullVars, renameVars, storeVars, asyncVars, bgVars, ev>>

(***************************************************************************)
(* An invocation of performSync / performFullSync.                         *)
(*   todo      the changes (githubFiles) still to be processed             *)
(*   modified  locallyModifiedFiles of performFullSync                     *)
(*   listed    the paths of githubFiles                                    *)
(*   cur       the change syncFile / the loop body is processing           *)
(*   gh        githubFile, the result of getFileInfo (content decoded)     *)
(*   csha      the sha returned by the PUT of commit                       *)
(*   choice    the answer of handleConflict                                *)
(* and, for the properties: quiet (no local or remote change by the user   *)
(* or another device and no removal of the configuration since the         *)
(* invocation read the configuration), auto (the paths that had only a     *)
(* remote change when status() ran), wrote / asked (the paths written to   *)
(* the remote / prompted for by this invocation).                          *)
(***************************************************************************)
NoChange == [path |-> 0, status |-> "none", sha |-> NoSha]
NoRun == [kind |-> "idle", pc |-> "idle", todo |-> <<>>, modified |-> {},
          listed |-> {}, cur |-> NoChange, gh |-> Absent, csha |-> NoSha,
          choice |-> "none", quiet |-> FALSE, auto |-> {}, wrote |-> {},
          asked |-> {}]

NoPath == 0
NoHandle == 0
NoRename == [pc |-> "idle", path |-> NoPath, content |-> NoContent,
             oldPath |-> NoPath, oldFileSha |-> NoSha, sha |-> NoSha,
             deleted |-> FALSE]

Callers == {1, 2}
NoCall == [op |-> "none", pc |-> "idle", files |-> <<>>, reset |-> FALSE,
           todo |-> <<>>, path |-> 0, sha |-> NoSha, data |-> <<>>,
           before |-> <<>>, alone |-> FALSE]

Disturbed == [s \in Slots |-> [runs[s] EXCEPT !.quiet = FALSE]]

(***************************************************************************)
(* Environment                                                             *)
(***************************************************************************)
\* another device writes or deletes the file on the remote
remoteChange(p, c) ==
    /\ nRemote < MaxRemoteChanges
    /\ nRemote' = nRemote + 1
    /\ remote' = [remote EXCEPT ![p] = IF c = NoContent THEN Absent ELSE Stored(c)]
    /\ remote'[p] # remote[p]
    /\ runs' = Disturbed
    /\ ev' = NoEvent
    /\ UNCHANGED <<local, token, repoUrl, nEdits>>
    /\ UNCHANGED <<schedVars, pullVars, renameVars, storeVars, asyncVars, bgVars, trackVars, isSyncing, nSyncs>>

\* the user saves or deletes a note in the editor
editLocal(p, c) ==
    /\ nEdits < MaxEdits
    /\ nEdits' = nEdits + 1
    /\ local' = [local EXCEPT ![p] = c]
    /\ local'[p] # local[p]
    /\ runs' = Disturbed
    /\ ev' = NoEvent
    /\ UNCHANGED <<remote, token, repoUrl, nRemote>>
    /\ UNCHANGED <<schedVars, pullVars, renameVars, storeVars, asyncVars, bgVars, trackVars, isSyncing, nSyncs>>

\* settings: removeToken()
removeToken ==
    /\ token
    /\ token' = FALSE
    /\ runs' = Disturbed
    /\ ev' = NoEvent
    /\ UNCHANGED <<remote, local, repoUrl, nRemote, nEdits>>
    /\ UNCHANGED <<schedVars, pullVars, renameVars, storeVars, asyncVars, bgVars, trackVars, isSyncing, nSyncs>>

\* settings: removeRepoUrl()
removeRepoUrl ==
    /\ repoUrl
    /\ repoUrl' = FALSE
    /\ runs' = Disturbed
    /\ ev' = NoEvent
    /\ UNCHANGED <<remote, local, token, nRemote, nEdits>>
    /\ UNCHANGED <<schedVars, pullVars, renameVars, storeVars, asyncVars, bgVars, trackVars, isSyncing, nSyncs>>

(***************************************************************************)
(* Tracker (fileTracker.ts)                                                *)
(***************************************************************************)
Tracked(p) == lastCommitFiles[p] # Absent

\* hasFileChanged(path, lastKnown) for a file found by the directory scan
hasFileChanged(p) ==
    \/ ~Tracked(p)
    \/ ~repoUrl
    \/ local[p] = NoContent
    \/ local[p] # lastCommitFiles[p].content

\* the entry status() emits for one path
StatusOf(p) ==
    IF local[p] # NoContent
    THEN IF ~Tracked(p) THEN "added"
         ELSE IF hasFileChanged(p) THEN "modified" ELSE "none"
    ELSE IF Tracked(p) THEN "deleted" ELSE "none"

ChangeOf(p) == [path |-> p, status |-> StatusOf(p),
                sha |-> IF Tracked(p) THEN lastCommitFiles[p].sha ELSE NoSha]

RECURSIVE ChangesOf(_)
ChangesOf(ps) ==
    IF ps = <<>> THEN <<>>
    ELSE <<ChangeOf(Head(ps))>> \o ChangesOf(Tail(ps))

\* status() whose second loop does not consult currentFiles
status_allTracked ==
    ChangesOf(KeysOf({p \in Paths : StatusOf(p) \in {"added", "modified"}}))
        \o ChangesOf(KeysOf({p \in Paths : Tracked(p)}))

\* status(repoDir): the files of the scan first, then the deleted ones
status ==
    ChangesOf(KeysOf({p \in Paths : StatusOf(p) \in {"added", "modified"}}))
        \o ChangesOf(KeysOf({p \in Paths : StatusOf(p) = "deleted"}))

\* initializeTracking that only refreshes entries that exist already
initializeTracking_skipsNew(p, sha) ==
    IF repoUrl /\ local[p] # NoContent /\ Tracked(p)
    THEN [lastCommitFiles EXCEPT ![p] = [sha |-> sha, content |-> local[p]]]
    ELSE lastCommitFiles

\* initializeTracking([{path, sha}]) without reset
initializeTracking(p, sha) ==
    IF repoUrl /\ local[p] # NoContent
    THEN [lastCommitFiles EXCEPT ![p] = [sha |-> sha, content |-> local[p]]]
    ELSE lastCommitFiles

\* the entry is dropped before the response is looked at
UntrackDeleted_unchecked(p, ok) ==
    [lastCommitFiles EXCEPT ![p] = Absent]

\* commit, case 'deleted': the tracking entry after the DELETE response
UntrackDeleted(p, ok) ==
    IF ok THEN [lastCommitFiles EXCEPT ![p] = Absent] ELSE lastCommitFiles

\* getFileInfo that returns the content as transported
getFileInfo_raw(p) ==
    IF RemoteExists(p)
    THEN [sha |-> remote[p].sha, content |-> remote[p].content]
    ELSE Absent

\* getFileInfo(relativePath) on a response: null for 404
getFileInfo(p) ==
    IF RemoteExists(p)
    THEN [sha |-> remote[p].sha, content |-> decodeBase64(remote[p].content)]
    ELSE Absent

DeleteAccepted(p, sha) == RemoteExists(p) /\ sha = RemoteSha(p)

(***************************************************************************)
(* Orchestrator (syncManager.ts)                                           *)
(***************************************************************************)
Active(s) == runs[s].kind # "idle"
OpName(r) == IF r.kind = "full" THEN "performFullSync" ELSE "performSync"
SyncFilePcs == {"sf_get", "sf_status", "sf_prompt", "sf_write", "sf_track",
                "cm_put", "cm_track"}

\* an end that leaves the flag as it is
Finish_keepsFlag(s) ==
    /\ runs' = [runs EXCEPT ![s] = NoRun]
    /\ UNCHANGED isSyncing

\* the invocation ends: finally { isSyncing = false }
Finish(s) ==
    /\ runs' = [runs EXCEPT ![s] = NoRun]
    /\ isSyncing' = FALSE

\* the loop goes on with the next change, or the invocation ends
Advance(s, r) ==
    IF r.todo = <<>>
    THEN Finish(s)
    ELSE /\ runs' = [runs EXCEPT ![s] =
                [r EXCEPT !.cur = Head(r.todo), !.todo = Tail(r.todo),
                          !.gh = Absent, !.csha = NoSha, !.choice = "none",
                          !.pc = IF r.kind = "full" THEN "f_get" ELSE "sf_get"]]
         /\ UNCHANGED isSyncing
EndOf(r) == IF r.todo = <<>> THEN "returned" ELSE "no"

StartRun(s, kind) ==
    /\ nSyncs < MaxSyncs
    /\ nSyncs' = nSyncs + 1
    /\ isSyncing' = TRUE
    /\ runs' = [runs EXCEPT ![s] = [NoRun EXCEPT !.kind = kind, !.pc = "config"]]
    /\ ev' = Event("start", 0, TRUE, kind, s, "no")

Dropped(s, kind) ==
    /\ ev' = Event("dropped", 0, TRUE, kind, s, "returned")
    /\ UNCHANGED <<isSyncing, runs, nSyncs>>

FreeSlot(s) == ~Active(s) /\ \A t \in Slots : t < s => Active(t)

\* performSync without the isSyncing guard
performSync_noGuard(s) ==
    /\ FreeSlot(s)
    /\ StartRun(s, "sync")
    /\ UNCHANGED <<envVars, schedVars, pullVars, renameVars, storeVars, asyncVars, bgVars, trackVars>>

\* performSync() up to its first await
performSync(s) ==
    /\ FreeSlot(s)
    /\ IF isSyncing THEN Dropped(s, "sync") ELSE StartRun(s, "sync")
    /\ UNCHANGED <<envVars, schedVars, pullVars, renameVars, storeVars, asyncVars, bgVars, trackVars>>

\* performFullSync() up to its first await
performFullSync(s) ==
    /\ FreeSlot(s)
    /\ IF isSyncing THEN Dropped(s, "full") ELSE StartRun(s, "full")
    /\ UNCHANGED <<envVars, schedVars, pullVars, renameVars, storeVars, asyncVars, bgVars, trackVars>>

\* getRepoInfo() and getToken()
sync_config(s) ==
    /\ runs[s].pc = "config"
    /\ IF ~repoUrl
       THEN \* getRepoInfo throws: performSync logs it, performFullSync rethrows
            /\ Finish(s)
            /\ ev' = Event("config", 0, FALSE, OpName(runs[s]), s,
                           IF runs[s].kind = "full" THEN "threw" ELSE "returned")
       ELSE IF ~token
            THEN /\ Finish(s)
                 /\ ev' = Event("config", 0, FALSE, OpName(runs[s]), s, "returned")
            ELSE /\ runs' = [runs EXCEPT ![s].pc = "status", ![s].quiet = TRUE]
                 /\ ev' = Event("config", 0, TRUE, OpName(runs[s]), s, "no")
                 /\ UNCHANGED isSyncing
    /\ UNCHANGED <<envVars, schedVars, pullVars, renameVars, storeVars, asyncVars, bgVars, trackVars, nSyncs>>

\* const changes = await status(repoDir)
sync_status(s) ==
    /\ runs[s].pc = "status"
    /\ LET r == [runs[s] EXCEPT
                   !.auto = {p \in Paths : /\ Tracked(p) /\ RemoteExists(p)
                                           /\ RemoteSha(p) # lastCommitFiles[p].sha
                                           /\ local[p] = lastCommitFiles[p].content}]
       IN IF runs[s].kind = "sync"
          THEN /\ Advance(s, [r EXCEPT !.todo = status])
               /\ ev' = Event("status", 0, TRUE, OpName(r), s,
                              IF status = <<>> THEN "returned" ELSE "no")
          ELSE /\ runs' = [runs EXCEPT ![s] =
                     [r EXCEPT !.pc = "list",
                               !.modified = {status[k].path : k \in DOMAIN status}]]
               /\ ev' = Event("status", 0, TRUE, OpName(r), s, "no")
               /\ UNCHANGED isSyncing
    /\ UNCHANGED <<envVars, schedVars, pullVars, renameVars, storeVars, asyncVars, bgVars, trackVars, nSyncs>>

RECURSIVE ListingOf(_)
ListingOf(ps) ==
    IF ps = <<>> THEN <<>>
    ELSE <<[path |-> Head(ps), status |-> "modified", sha |-> RemoteSha(Head(ps))]>>
            \o ListingOf(Tail(ps))

\* const githubFiles = await getGitHubContents()
full_list(s) ==
    /\ runs[s].pc = "list"
    /\ \E net \in BOOLEAN :
         IF ~net
         THEN /\ Finish(s)
              /\ ev' = Event("list", 0, FALSE, "performFullSync", s, "threw")
         ELSE LET ps == {p \in Paths : RemoteExists(p)}
                  r == [runs[s] EXCEPT !.listed = ps, !.todo = ListingOf(KeysOf(ps))]
              IN /\ Advance(s, r)
                 /\ ev' = Event("list", 0, TRUE, "performFullSync", s, EndOf(r))
    /\ UNCHANGED <<envVars, schedVars, pullVars, renameVars, storeVars, asyncVars, bgVars, trackVars, nSyncs>>

\* loop body of performFullSync: getFileInfo, getInfoAsync and the branch
full_get(s) ==
    /\ runs[s].pc = "f_get"
    /\ LET r == runs[s]
           p == r.cur.path
       IN \E net \in BOOLEAN :
            IF ~token \/ ~net
            THEN /\ Finish(s)
                 /\ ev' = Event("get", p, FALSE, "performFullSync", s, "threw")
            ELSE IF getFileInfo(p) = Absent
            THEN /\ Advance(s, r)
                 /\ ev' = Event("get", p, TRUE, "performFullSync", s, EndOf(r))
            ELSE /\ runs' = [runs EXCEPT ![s] =
                       [r EXCEPT !.gh = getFileInfo(p),
                                 !.pc = IF local[p] = NoContent THEN "f_write"
                                        ELSE IF p \in r.modified THEN "sf_get"
                                        ELSE "f_write"]]
                 /\ ev' = Event("get", p, TRUE, "performFullSync", s, "no")
                 /\ UNCHANGED isSyncing
    /\ UNCHANGED <<envVars, schedVars, pullVars, renameVars, storeVars, asyncVars, bgVars, trackVars, nSyncs>>

\* FileSystem.writeAsStringAsync(fullPath, githubFile.content)
local_write(s) ==
    /\ runs[s].pc \in {"f_write", "sf_write"}
    /\ local' = [local EXCEPT ![runs[s].cur.path] = runs[s].gh.content]
    /\ runs' = [runs EXCEPT ![s].pc = IF runs[s].pc = "f_write" THEN "f_track"
                                      ELSE "sf_track"]
    /\ ev' = Event("lwrite", runs[s].cur.path, TRUE, OpName(runs[s]), s, "no")
    /\ UNCHANGED <<remote, token, repoUrl, nRemote, nEdits>>
    /\ UNCHANGED <<schedVars, pullVars, renameVars, storeVars, asyncVars, bgVars, trackVars, isSyncing, nSyncs>>

\* the step after the write that leaves the tracking table as it is
track_skipped(s) ==
    /\ runs[s].pc \in {"f_track", "sf_track"}
    /\ lastCommitFiles' = lastCommitFiles
    /\ Advance(s, runs[s])
    /\ ev' = Event("track", runs[s].cur.path, TRUE, OpName(runs[s]), s, EndOf(runs[s]))
    /\ UNCHANGED <<envVars, schedVars, pullVars, renameVars, storeVars, asyncVars, bgVars, nSyncs>>

\* await initializeTracking([{ path, sha: githubFile.sha }])
track(s) ==
    /\ runs[s].pc \in {"f_track", "sf_track"}
    /\ lastCommitFiles' = initializeTracking(runs[s].cur.path, runs[s].gh.sha)
    /\ Advance(s, runs[s])
    /\ ev' = Event("track", runs[s].cur.path, TRUE, OpName(runs[s]), s, EndOf(runs[s]))
    /\ UNCHANGED <<envVars, schedVars, pullVars, renameVars, storeVars, asyncVars, bgVars, nSyncs>>

\* syncFile: const githubFile = await getFileInfo(change.path), and the test
syncFile_get(s) ==
    /\ runs[s].pc = "sf_get"
    /\ LET r == runs[s]
           p == r.cur.path
       IN \E net \in BOOLEAN :
            IF ~token \/ ~net
            THEN /\ Advance(s, r)
                 /\ ev' = Event("get", p, FALSE, OpName(r), s, EndOf(r))
            ELSE /\ runs' = [runs EXCEPT ![s] =
                       [r EXCEPT !.gh = getFileInfo(p),
                                 !.pc = IF getFileInfo(p) = Absent
                                           \/ getFileInfo(p).sha = r.cur.sha
                                        THEN "cm_put" ELSE "sf_status"]]
                 /\ ev' = Event("get", p, TRUE, OpName(r), s, "no")
                 /\ UNCHANGED isSyncing
    /\ UNCHANGED <<envVars, schedVars, pullVars, renameVars, storeVars, asyncVars, bgVars, trackVars, nSyncs>>

\* syncFile: const localChanges = await status(repoDir); hasLocalChanges
syncFile_status(s) ==
    /\ runs[s].pc = "sf_status"
    /\ runs' = [runs EXCEPT ![s] =
          IF StatusOf(runs[s].cur.path) = "modified"
          THEN [runs[s] EXCEPT !.pc = "sf_prompt",
                               !.asked = @ \cup {runs[s].cur.path}]
          ELSE [runs[s] EXCEPT !.pc = "sf_write"]]
    /\ ev' = Event(IF StatusOf(runs[s].cur.path) = "modified" THEN "prompt" ELSE "status",
                   runs[s].cur.path, TRUE, OpName(runs[s]), s, "no")
    /\ UNCHANGED <<envVars, schedVars, pullVars, renameVars, storeVars, asyncVars, bgVars, trackVars, isSyncing, nSyncs>>

\* handleConflict resolves: the user pressed one of the two buttons
syncFile_choice(s) ==
    /\ runs[s].pc = "sf_prompt"
    /\ \E ch \in {"local", "remote"} :
         /\ runs' = [runs EXCEPT ![s] =
               IF ch = "local"
               THEN [runs[s] EXCEPT !.choice = ch, !.pc = "cm_put",
                                    !.cur = [@ EXCEPT !.sha = runs[s].gh.sha]]
               ELSE [runs[s] EXCEPT !.choice = ch, !.pc = "sf_write"]]
         /\ ev' = Event("choice", runs[s].cur.path, TRUE, OpName(runs[s]), s, "no")
    /\ UNCHANGED <<envVars, schedVars, pullVars, renameVars, storeVars, asyncVars, bgVars, trackVars, isSyncing, nSyncs>>

\* commit(repoDir, [change], ...): the file is read and the request is sent
commit_put(s) ==
    /\ runs[s].pc = "cm_put"
    /\ LET r == runs[s]
           p == r.cur.path
       IN \E net \in BOOLEAN :
            IF r.cur.status = "deleted"
            THEN LET ok == net /\ DeleteAccepted(p, r.cur.sha)
                 IN /\ remote' = IF ok THEN [remote EXCEPT ![p] = Absent] ELSE remote
                    /\ lastCommitFiles' = UntrackDeleted(p, ok)
                    /\ Advance(s, IF ok THEN [r EXCEPT !.wrote = @ \cup {p}] ELSE r)
                    /\ ev' = Event("delete", p, ok, OpName(r), s, EndOf(r))
            ELSE IF local[p] = NoContent
            THEN /\ Advance(s, r)
                 /\ ev' = Event("lread", p, FALSE, OpName(r), s, EndOf(r))
                 /\ UNCHANGED <<remote, lastCommitFiles>>
            ELSE IF ~net \/ ~PutAccepted(p, r.cur.sha)
            THEN /\ Advance(s, r)
                 /\ ev' = Event("put", p, FALSE, OpName(r), s, EndOf(r))
                 /\ UNCHANGED <<remote, lastCommitFiles>>
            ELSE /\ remote' = [remote EXCEPT ![p] = [sha |-> ShaOf(local[p]),
                                                    content |-> encodeBase64(local[p])]]
                 /\ runs' = [runs EXCEPT ![s] =
                       [r EXCEPT !.pc = "cm_track", !.csha = ShaOf(local[p]),
                                 !.wrote = @ \cup {p}]]
                 /\ ev' = Event("put", p, TRUE, OpName(r), s, "no")
                 /\ UNCHANGED <<lastCommitFiles, isSyncing>>
    /\ UNCHANGED <<local, token, repoUrl, nRemote, nEdits, schedVars, pullVars, renameVars, storeVars, asyncVars, bgVars, nSyncs>>

\* commit: the tracking state is updated from result.changedFiles and saved
commit_track(s) ==
    /\ runs[s].pc = "cm_track"
    /\ LET r == runs[s]
           p == r.cur.path
       IN /\ lastCommitFiles' =
                IF local[p] = NoContent THEN lastCommitFiles
                ELSE [lastCommitFiles EXCEPT ![p] = [sha |-> r.csha, content |-> local[p]]]
          /\ Advance(s, r)
          /\ ev' = Event("track", p, local[p] # NoContent, OpName(r), s, EndOf(r))
    /\ UNCHANGED <<envVars, schedVars, pullVars, renameVars, storeVars, asyncVars, bgVars, nSyncs>>

(***************************************************************************)
(* syncFromGitHub (fileTracker.ts): the full download                      *)
(*   listing   githubPaths                                                 *)
(*   dels      the local files still to be compared with githubPaths       *)
(*   todo      the GitHub files still to be fetched                        *)
(***************************************************************************)
NoPull == [pc |-> "idle", listing |-> {}, dels |-> <<>>, todo |-> <<>>]

PullEnds(op, p, ok, end) ==
    /\ pull' = NoPull
    /\ ev' = Event(op, p, ok, "syncFromGitHub", 0, end)

\* syncFromGitHub(): getToken(), getRepoUrl()
syncFromGitHub ==
    /\ pull.pc = "idle"
    /\ nPulls < MaxPulls
    /\ nPulls' = nPulls + 1
    /\ IF ~token \/ ~repoUrl
       THEN PullEnds("config", 0, FALSE, "returned")
       ELSE /\ pull' = [NoPull EXCEPT !.pc = "sg_list"]
            /\ ev' = Event("config", 0, TRUE, "syncFromGitHub", 0, "no")
    /\ UNCHANGED <<envVars, schedVars, trackVars, syncVars, storeVars, asyncVars, bgVars, renameVars>>

\* const files = await getGitHubContents()
pull_list ==
    /\ pull.pc = "sg_list"
    /\ \E net \in BOOLEAN :
         IF ~net
         THEN PullEnds("list", 0, FALSE, "threw")
         ELSE /\ pull' = [pull EXCEPT !.pc = "sg_scan",
                                      !.listing = {p \in Paths : RemoteExists(p)},
                                      !.todo = KeysOf({p \in Paths : RemoteExists(p)})]
              /\ ev' = Event("list", 0, TRUE, "syncFromGitHub", 0, "no")
    /\ UNCHANGED <<nPulls, envVars, schedVars, trackVars, syncVars, storeVars, asyncVars, bgVars, renameVars>>

\* after the delete loop: the fetch loop, or the end
PullFetchOrEnd(pl, op, p, ok) ==
    IF pl.todo = <<>>
    THEN PullEnds(op, p, ok, "returned")
    ELSE /\ pull' = [pl EXCEPT !.pc = "sg_fetch"]
         /\ ev' = Event(op, p, ok, "syncFromGitHub", 0, "no")

\* const localFiles = await getLocalFiles(baseDir)
pull_scan ==
    /\ pull.pc = "sg_scan"
    /\ LET pl == [pull EXCEPT !.dels = KeysOf({p \in Paths : local[p] # NoContent})]
       IN IF pl.dels = <<>>
          THEN PullFetchOrEnd(pl, "scan", 0, TRUE)
          ELSE /\ pull' = [pl EXCEPT !.pc = "sg_delete"]
               /\ ev' = Event("scan", 0, TRUE, "syncFromGitHub", 0, "no")
    /\ UNCHANGED <<nPulls, envVars, schedVars, trackVars, syncVars, storeVars, asyncVars, bgVars, renameVars>>

\* whether the delete loop removes the local file
PullDeletes(p) == p \notin pull.listing

\* the delete loop: one local file
pull_delete ==
    /\ pull.pc = "sg_delete"
    /\ LET p == Head(pull.dels)
           pl == [pull EXCEPT !.dels = Tail(pull.dels)]
       IN IF PullDeletes(p) /\ local[p] = NoContent
          THEN \* FileSystem.deleteAsync of a missing file throws
               /\ PullEnds("ldelete", p, FALSE, "threw")
               /\ UNCHANGED <<local, fileMetadata>>
          ELSE /\ local' = IF PullDeletes(p) THEN [local EXCEPT ![p] = NoContent]
                           ELSE local
               /\ fileMetadata' = IF PullDeletes(p)
                                  THEN [fileMetadata EXCEPT ![p] = NoSha]
                                  ELSE fileMetadata
               /\ IF pl.dels = <<>>
                  THEN PullFetchOrEnd(pl, IF PullDeletes(p) THEN "ldelete" ELSE "keep", p, TRUE)
                  ELSE /\ pull' = pl
                       /\ ev' = Event(IF PullDeletes(p) THEN "ldelete" ELSE "keep", p, TRUE,
                                      "syncFromGitHub", 0, "no")
    /\ UNCHANGED <<remote, token, repoUrl, nRemote, nEdits, nPulls>>
    /\ UNCHANGED <<pendingChanges, timers, nextTimer, activeCommits, commits,
                   flushes, scheduled, replaced, trackVars, syncVars, storeVars, asyncVars, bgVars, renameVars>>

\* the fetch loop: one GitHub file is fetched, written and its metadata set
pull_fetch ==
    /\ pull.pc = "sg_fetch"
    /\ LET p == Head(pull.todo)
           pl == [pull EXCEPT !.todo = Tail(pull.todo)]
       IN \E net \in BOOLEAN :
            LET ok == net /\ RemoteExists(p)
            IN /\ local' = IF ok THEN [local EXCEPT ![p] = decodeBase64(remote[p].content)]
                           ELSE local
               /\ fileMetadata' = IF ok THEN [fileMetadata EXCEPT ![p] = remote[p].sha]
                                  ELSE fileMetadata
               /\ IF pl.todo = <<>>
                  THEN PullEnds("lwrite", p, ok, "returned")
                  ELSE /\ pull' = pl
                       /\ ev' = Event("lwrite", p, ok, "syncFromGitHub", 0, "no")
    /\ UNCHANGED <<remote, token, repoUrl, nRemote, nEdits, nPulls>>
    /\ UNCHANGED <<pendingChanges, timers, nextTimer, activeCommits, commits,
                   flushes, scheduled, replaced, trackVars, syncVars, storeVars, asyncVars, bgVars, renameVars>>

(***************************************************************************)
(* Initial state: path 1 is a cloned note (remote, local file and tracker   *)
(* agree on content 1), path 2 is unknown everywhere.                      *)
(***************************************************************************)
Init ==
    /\ LET cloned == {1} IN
         /\ remote = [p \in Paths |-> IF p \in cloned THEN Stored(1) ELSE Absent]
         /\ local = [p \in Paths |-> IF p \in cloned THEN 1 ELSE NoContent]
         /\ lastCommitFiles = [p \in Paths |->
                IF p \in cloned THEN [sha |-> ShaOf(1), content |-> 1] ELSE Absent]
         /\ fileMetadata = [p \in Paths |-> IF p \in cloned THEN ShaOf(1) ELSE NoSha]
    /\ token = TRUE
    /\ repoUrl = TRUE
    /\ nRemote = 0
    /\ nEdits = 0
    /\ pendingChanges = [p \in Paths |-> NoPending]
    /\ timers = {}
    /\ nextTimer = 1
    /\ activeCommits = {}
    /\ commits = <<>>
    /\ flushes = {}
    /\ scheduled = <<>>
    /\ replaced = {}
    /\ isSyncing = FALSE
    /\ runs = [s \in Slots |-> NoRun]
    /\ nSyncs = 0
    /\ pull = NoPull
    /\ nPulls = 0
    /\ calls = [c \in Callers |-> NoCall]
    /\ nCalls = 0
    /\ trackingFile = lastCommitFiles
    /\ load = "done"
    /\ arming = <<>>
    /\ syncInterval = NoHandle
    /\ appStateSubscription = NoHandle
    /\ intervals = {}
    /\ subscriptions = {}
    /\ nextHandle = 1
    /\ renaming = NoRename
    /\ nRenames = 0
    /\ reports = {}
    /\ ev = NoEvent

(***************************************************************************)
(* The commit scheduler with its environment                               *)
(***************************************************************************)
\* The editor schedules the text it has just saved: every call carries the
\* text of one more save, identified by the number of the call.
SchedNext ==
    \/ \E p \in Paths : scheduleCommit(p, nextTimer)
    \/ \E t \in timers : commitPendingChange(t)
    \/ \E i \in DOMAIN commits : commitFile_get(i)
    \/ \E i \in DOMAIN commits : commitFile_put(i)
    \/ commitAllPendingChanges
    \/ \E f \in flushes : flushResolves(f)
    \/ \E p \in Paths, c \in Contents \cup {NoContent} : remoteChange(p, c)
    \/ removeToken

SchedSpec == Init /\ [][SchedNext]_vars

(***************************************************************************)
(* The commit scheduler under the assumption that timers fire: a timer     *)
(* that stays armed eventually runs its callback.  Nothing else is         *)
(* assumed: the editor need not call commitAllPendingChanges and requests  *)
(* need not complete.                                                      *)
(***************************************************************************)
TimerIds == 1..MaxSchedules

SchedLiveNext ==
    \/ \E p \in Paths : scheduleCommit(p, nextTimer)
    \/ \E t \in timers : commitPendingChange(t)
    \/ \E i \in DOMAIN commits : commitFile_get(i)
    \/ \E i \in DOMAIN commits : commitFile_put(i)
    \/ commitAllPendingChanges
    \/ \E f \in flushes : flushResolves(f)

TimersFire ==
    \A id \in TimerIds, p \in Paths :
        WF_vars(commitPendingChange([id |-> id, path |-> p]))

SchedLiveSpec == Init /\ [][SchedLiveNext]_vars /\ TimersFire

(***************************************************************************)
(* scheduleCommit of fileTracker.ts: it reads the remote file and the      *)
(* remembered metadata before it arms the timer.  An invocation:           *)
(*   path, content   its arguments (the content is the number of the call) *)
(*   pc              url, info: the await it is waiting on;                *)
(*                   prompt: the alert is shown; use_write, use_meta: the  *)
(*                   awaits of 'Use GitHub Version'; armed, kept, viewed,  *)
(*                   used, returned, threw: how it ended                   *)
(*   info            fileInfo, the result of getFileInfo                   *)
(***************************************************************************)
\* scheduleCommit(path, content) up to await getRepoUrl()
sca_call(p) ==
    /\ Len(arming) < MaxSchedules
    /\ arming' = Append(arming, [path |-> p, content |-> Len(arming) + 1,
                                 pc |-> "url", info |-> Absent])
    /\ scheduled' = Append(scheduled, [path |-> p, content |-> Len(arming) + 1])
    /\ UNCHANGED <<pendingChanges, timers, nextTimer, activeCommits, fileMetadata,
                   commits, flushes, replaced>>
    /\ UNCHANGED <<envVars, trackVars, syncVars, pullVars, renameVars, storeVars,
                   bgVars, ev>>

\* getRepoUrl() resolves: return without a repository URL
sca_url(i) ==
    /\ i \in DOMAIN arming
    /\ arming[i].pc = "url"
    /\ arming' = [arming EXCEPT ![i].pc = IF repoUrl THEN "info" ELSE "returned"]
    /\ UNCHANGED <<envVars, schedVars, trackVars, syncVars, pullVars, renameVars,
                   storeVars, bgVars, ev>>

\* getFileInfo(relativePath) throws, or resolves (null for 404) and
\* getFileMetadata(path), which awaits nothing, resolves in the same turn;
\* then the alert is shown, or the timeout of the existing entry is cleared
\* and the new entry is stored
sca_info(i) ==
    /\ i \in DOMAIN arming
    /\ arming[i].pc = "info"
    /\ LET p == arming[i].path
           fileInfo == getFileInfo(p)
       IN \E net \in BOOLEAN :
            IF ~token \/ ~net
            THEN /\ arming' = [arming EXCEPT ![i].pc = "threw"]
                 /\ UNCHANGED <<pendingChanges, timers, nextTimer, replaced>>
            ELSE IF /\ fileInfo # Absent
                    /\ fileMetadata[p] # NoSha
                    /\ fileInfo.sha # fileMetadata[p]
                 THEN /\ arming' = [arming EXCEPT ![i].pc = "prompt",
                                                  ![i].info = fileInfo]
                      /\ UNCHANGED <<pendingChanges, timers, nextTimer, replaced>>
                 ELSE /\ arming' = [arming EXCEPT ![i].pc = "armed",
                                                  ![i].info = fileInfo]
                      /\ timers' = {t \in timers : t.path # p
                                                   \/ pendingChanges[p] = NoPending
                                                   \/ t.id # pendingChanges[p].timeout}
                                      \cup {[id |-> nextTimer, path |-> p]}
                      /\ pendingChanges' = [pendingChanges EXCEPT
                                              ![p] = [content |-> arming[i].content,
                                                      timeout |-> nextTimer, sid |-> i]]
                      /\ nextTimer' = nextTimer + 1
                      /\ replaced' = IF pendingChanges[p] # NoPending
                                     THEN replaced \cup {pendingChanges[p].sid}
                                     ELSE replaced
    /\ UNCHANGED <<activeCommits, fileMetadata, commits, flushes, scheduled>>
    /\ UNCHANGED <<envVars, trackVars, syncVars, pullVars, renameVars, storeVars,
                   bgVars, ev>>

\* the user answers the alert: 'View on GitHub' resolves, 'Keep My Changes'
\* calls commitFile, 'Use GitHub Version' starts writing the remote text
sca_choice(i, choice) ==
    /\ i \in DOMAIN arming
    /\ arming[i].pc = "prompt"
    /\ CASE choice = "view" ->
              /\ arming' = [arming EXCEPT ![i].pc = "viewed"]
              /\ UNCHANGED <<commits, activeCommits>>
         [] choice = "keep" ->
              /\ arming' = [arming EXCEPT ![i].pc = "kept"]
              /\ commits' = StartCommit(commits, arming[i].path,
                                        arming[i].content, i, "prompt")
              /\ activeCommits' = activeCommits \cup {arming[i].path}
         [] choice = "use" ->
              /\ arming' = [arming EXCEPT ![i].pc = "use_write"]
              /\ UNCHANGED <<commits, activeCommits>>
    /\ UNCHANGED <<pendingChanges, timers, nextTimer, fileMetadata, flushes,
                   scheduled, replaced>>
    /\ UNCHANGED <<envVars, trackVars, syncVars, pullVars, renameVars, storeVars,
                   bgVars, ev>>

\* 'Use GitHub Version': writeAsStringAsync(path, content) completes
sca_use_write(i) ==
    /\ i \in DOMAIN arming
    /\ arming[i].pc = "use_write"
    /\ local' = [local EXCEPT ![arming[i].path] = arming[i].info.content]
    /\ arming' = [arming EXCEPT ![i].pc = "use_meta"]
    /\ UNCHANGED <<remote, token, repoUrl, nRemote, nEdits, schedVars, trackVars,
                   syncVars, pullVars, renameVars, storeVars, bgVars, ev>>

\* 'Use GitHub Version': updateFileMetadata(path, {sha: fileInfo.sha, ...})
sca_use_meta(i) ==
    /\ i \in DOMAIN arming
    /\ arming[i].pc = "use_meta"
    /\ fileMetadata' = [fileMetadata EXCEPT ![arming[i].path] = arming[i].info.sha]
    /\ arming' = [arming EXCEPT ![i].pc = "used"]
    /\ UNCHANGED <<pendingChanges, timers, nextTimer, activeCommits, commits,
                   flushes, scheduled, replaced>>
    /\ UNCHANGED <<envVars, trackVars, syncVars, pullVars, renameVars, storeVars,
                   bgVars, ev>>

AsyncNext ==
    \/ \E p \in Paths : sca_call(p)
    \/ \E i \in DOMAIN arming : sca_url(i)
    \/ \E i \in DOMAIN arming : sca_info(i)
    \/ \E i \in DOMAIN arming, choice \in {"view", "keep", "use"} : sca_choice(i, choice)
    \/ \E i \in DOMAIN arming : sca_use_write(i)
    \/ \E i \in DOMAIN arming : sca_use_meta(i)
    \/ \E t \in timers : commitPendingChange(t)
    \/ \E i \in DOMAIN commits : commitFile_get(i)
    \/ \E i \in DOMAIN commits : commitFile_put(i)
    \/ commitAllPendingChanges
    \/ \E f \in flushes : flushResolves(f)
    \/ \E p \in Paths, c \in Contents \cup {NoContent} : remoteChange(p, c)
    \/ removeToken
    \/ removeRepoUrl

AsyncSpec == Init /\ [][AsyncNext]_vars

(***************************************************************************)
(* The orchestrator and the tracker with their environment                 *)
(***************************************************************************)
SyncNext ==
    \/ \E s \in Slots : performSync(s)
    \/ \E s \in Slots : performFullSync(s)
    \/ \E s \in Slots : sync_config(s)
    \/ \E s \in Slots : sync_status(s)
    \/ \E s \in Slots : full_list(s)
    \/ \E s \in Slots : full_get(s)
    \/ \E s \in Slots : local_write(s)
    \/ \E s \in Slots : track(s)
    \/ \E s \in Slots : syncFile_get(s)
    \/ \E s \in Slots : syncFile_status(s)
    \/ \E s \in Slots : syncFile_choice(s)
    \/ \E s \in Slots : commit_put(s)
    \/ \E s \in Slots : commit_track(s)
    \/ \E p \in Paths, c \in Contents \cup {NoContent} : remoteChange(p, c)
    \/ \E p \in Paths, c \in Contents \cup {NoContent} : editLocal(p, c)
    \/ removeToken
    \/ removeRepoUrl

SyncSpec == Init /\ [][SyncNext]_vars

(***************************************************************************)
(* Background sync (syncManager.ts): the periodic timer and the app-state  *)
(* listener.  intervals and subscriptions are the timers and listeners     *)
(* that exist, whether or not the module still holds their handle.         *)
(***************************************************************************)
AppStates == {"active", "background", "inactive"}

\* stopBackgroundSync that leaves the app-state listener in place
stopBackgroundSync_keepsListener ==
    /\ IF syncInterval # NoHandle
       THEN /\ intervals' = intervals \ {syncInterval}
            /\ syncInterval' = NoHandle
            /\ UNCHANGED <<appStateSubscription, subscriptions>>
       ELSE UNCHANGED <<syncInterval, appStateSubscription, intervals, subscriptions>>
    /\ ev' = NoEvent
    /\ UNCHANGED <<envVars, schedVars, trackVars, syncVars, pullVars, renameVars,
                   storeVars, asyncVars, nextHandle>>

\* startBackgroundSync()
startBackgroundSync ==
    /\ IF syncInterval # NoHandle
       THEN UNCHANGED bgVars
       ELSE /\ nextHandle <= MaxStarts
            /\ syncInterval' = nextHandle
            /\ intervals' = intervals \cup {nextHandle}
            /\ appStateSubscription' = nextHandle
            /\ subscriptions' = subscriptions \cup {nextHandle}
            /\ nextHandle' = nextHandle + 1
    /\ ev' = NoEvent
    /\ UNCHANGED <<envVars, schedVars, trackVars, syncVars, pullVars, renameVars,
                   storeVars, asyncVars>>

\* stopBackgroundSync()
stopBackgroundSync ==
    /\ IF syncInterval # NoHandle
       THEN /\ intervals' = intervals \ {syncInterval}
            /\ syncInterval' = NoHandle
            /\ IF appStateSubscription # NoHandle
               THEN /\ subscriptions' = subscriptions \ {appStateSubscription}
                    /\ appStateSubscription' = NoHandle
               ELSE UNCHANGED <<appStateSubscription, subscriptions>>
       ELSE UNCHANGED <<syncInterval, appStateSubscription, intervals, subscriptions>>
    /\ ev' = NoEvent
    /\ UNCHANGED <<envVars, schedVars, trackVars, syncVars, pullVars, renameVars,
                   storeVars, asyncVars, nextHandle>>

\* a periodic timer fires: performSync()
interval_fires(h, s) ==
    /\ h \in intervals
    /\ performSync(s)

\* the app changes state and a listener runs: handleAppStateChange(nextAppState)
handleAppStateChange(h, nextAppState, s) ==
    /\ h \in subscriptions
    /\ IF nextAppState = "active"
       THEN performSync(s)
       ELSE /\ ev' = NoEvent
            /\ UNCHANGED <<envVars, schedVars, trackVars, syncVars, pullVars,
                           renameVars, storeVars, asyncVars, bgVars>>

BgNext ==
    \/ startBackgroundSync
    \/ stopBackgroundSync
    \/ \E h \in intervals, s \in Slots : interval_fires(h, s)
    \/ \E h \in subscriptions, a \in AppStates, s \in Slots :
           handleAppStateChange(h, a, s)
    \/ \E s \in Slots : sync_config(s)
    \/ \E s \in Slots : sync_status(s)
    \/ removeToken
    \/ removeRepoUrl

BgSpec == Init /\ [][BgNext]_vars

(***************************************************************************)
(* performSync alone with its environment, started some time after the    *)
(* clone: the user may have edited or deleted the note, and another device *)
(* may have written a content this device never had, so that the local,    *)
(* the tracked and the remote version of a file can be three different     *)
(* contents                                                                *)
(***************************************************************************)
OtherDevice == 3

InitConflict ==
    /\ local \in {[p \in Paths |-> IF p = 1 THEN c ELSE NoContent] :
                      c \in Contents \cup {NoContent}}
    /\ remote \in {[p \in Paths |-> IF p = 1 THEN Stored(c) ELSE Absent] :
                       c \in {1, OtherDevice}}
    /\ lastCommitFiles = [p \in Paths |->
           IF p = 1 THEN [sha |-> ShaOf(1), content |-> 1] ELSE Absent]
    /\ fileMetadata = [p \in Paths |-> IF p = 1 THEN ShaOf(1) ELSE NoSha]
    /\ token = TRUE
    /\ repoUrl = TRUE
    /\ nRemote = 0
    /\ nEdits = 0
    /\ pendingChanges = [p \in Paths |-> NoPending]
    /\ timers = {}
    /\ nextTimer = 1
    /\ activeCommits = {}
    /\ commits = <<>>
    /\ flushes = {}
    /\ scheduled = <<>>
    /\ replaced = {}
    /\ isSyncing = FALSE
    /\ runs = [s \in Slots |-> NoRun]
    /\ nSyncs = 0
    /\ pull = NoPull
    /\ nPulls = 0
    /\ calls = [c \in Callers |-> NoCall]
    /\ nCalls = 0
    /\ trackingFile = lastCommitFiles
    /\ load = "done"
    /\ arming = <<>>
    /\ syncInterval = NoHandle
    /\ appStateSubscription = NoHandle
    /\ intervals = {}
    /\ subscriptions = {}
    /\ nextHandle = 1
    /\ renaming = NoRename
    /\ nRenames = 0
    /\ reports = {}
    /\ ev = NoEvent

ConflictNext ==
    \/ \E s \in Slots : performSync(s)
    \/ \E s \in Slots : sync_config(s)
    \/ \E s \in Slots : sync_status(s)
    \/ \E s \in Slots : local_write(s)
    \/ \E s \in Slots : track(s)
    \/ \E s \in Slots : syncFile_get(s)
    \/ \E s \in Slots : syncFile_status(s)
    \/ \E s \in Slots : syncFile_choice(s)
    \/ \E s \in Slots : commit_put(s)
    \/ \E s \in Slots : commit_track(s)
    \/ \E p \in Paths, c \in Contents \cup {NoContent} : remoteChange(p, c)
    \/ \E p \in Paths, c \in Contents \cup {NoContent} : editLocal(p, c)
    \/ removeToken
    \/ removeRepoUrl

ConflictSpec == InitConflict /\ [][ConflictNext]_vars

(***************************************************************************)
(* syncFromGitHub with its environment                                     *)
(***************************************************************************)
PullNext ==
    \/ syncFromGitHub
    \/ pull_list
    \/ pull_scan
    \/ pull_delete
    \/ pull_fetch
    \/ \E p \in Paths, c \in Contents \cup {NoContent} : remoteChange(p, c)
    \/ \E p \in Paths, c \in Contents \cup {NoContent} : editLocal(p, c)
    \/ removeToken
    \/ removeRepoUrl

PullSpec == Init /\ [][PullNext]_vars

(***************************************************************************)
(* The tracker as performSync reads it: status() over every combination of *)
(* local files and tracked entries                                         *)
(***************************************************************************)
TrackedEntries ==
    {Absent} \cup [sha : {ShaOf(c) : c \in Contents}, content : Contents]

InitTracker ==
    /\ local \in [Paths -> Contents \cup {NoContent}]
    /\ lastCommitFiles \in [Paths -> TrackedEntries]
    /\ remote = [p \in Paths |-> Absent]
    /\ fileMetadata = [p \in Paths |-> NoSha]
    /\ token = TRUE
    /\ repoUrl = TRUE
    /\ nRemote = 0
    /\ nEdits = 0
    /\ pendingChanges = [p \in Paths |-> NoPending]
    /\ timers = {}
    /\ nextTimer = 1
    /\ activeCommits = {}
    /\ commits = <<>>
    /\ flushes = {}
    /\ scheduled = <<>>
    /\ replaced = {}
    /\ isSyncing = FALSE
    /\ runs = [s \in Slots |-> NoRun]
    /\ nSyncs = 0
    /\ pull = NoPull
    /\ nPulls = 0
    /\ calls = [c \in Callers |-> NoCall]
    /\ nCalls = 0
    /\ trackingFile = lastCommitFiles
    /\ load = "done"
    /\ arming = <<>>
    /\ syncInterval = NoHandle
    /\ appStateSubscription = NoHandle
    /\ intervals = {}
    /\ subscriptions = {}
    /\ nextHandle = 1
    /\ renaming = NoRename
    /\ nRenames = 0
    /\ reports = {}
    /\ ev = NoEvent

TrackNext ==
    \/ \E s \in Slots : performSync(s)
    \/ \E s \in Slots : sync_config(s)
    \/ \E s \in Slots : sync_status(s)
    \/ removeRepoUrl

TrackSpec == InitTracker /\ [][TrackNext]_vars

(***************************************************************************)
(* The tracking table and its copy on disk (fileTracker.ts): the awaits of *)
(* initializeTracking and of the tail of commit, for two callers that run  *)
(* at the same time (cloneRepository does not await initializeTracking,    *)
(* fileSystem.ts:133, so a sync can run next to it)                        *)
(***************************************************************************)
Shas == {ShaOf(c) : c \in Contents}

\* the argument files: at most one {path, sha} per path
FileLists == UNION {[S -> Shas] : S \in SUBSET Paths}

\* saveTrackingData(), up to its await: Object.fromEntries(lastCommitFiles)
Snapshot(table) == table

\* initializeTracking, loop body: skip a missing file, else set the entry
TrackFile(table, p, sha) ==
    IF local[p] # NoContent
    THEN [table EXCEPT ![p] = [sha |-> sha, content |-> local[p]]]
    ELSE table

\* initializeTracking(files, reset): the caller runs up to await getRepoInfo()
it_call(c, files, reset) ==
    /\ calls[c].op = "none"
    /\ nCalls < MaxCalls
    /\ nCalls' = nCalls + 1
    /\ calls' = [calls EXCEPT ![c] =
            [op |-> "initializeTracking", pc |-> "config", files |-> files,
             reset |-> reset, todo |-> KeysOf(DOMAIN files), path |-> 0,
             sha |-> NoSha, data |-> <<>>, before |-> lastCommitFiles,
             alone |-> \A d \in Callers : calls[d].op = "none"]]
    /\ UNCHANGED <<envVars, schedVars, trackVars, syncVars, pullVars, renameVars, asyncVars, bgVars, trackingFile, load, ev>>

\* a step of another caller ends the time a call had the table for itself
Alongside(c, rec) ==
    [d \in Callers |-> IF d = c THEN rec ELSE [calls[d] EXCEPT !.alone = FALSE]]

\* the table is final: saveTrackingData() takes its snapshot and starts writing
Saving(call, table) == [call EXCEPT !.pc = "saving", !.data = Snapshot(table)]

\* getRepoInfo() resolves or throws; reset clears the table; an empty list
\* goes straight to saveTrackingData()
it_config(c) ==
    /\ calls[c].op = "initializeTracking"
    /\ calls[c].pc = "config"
    /\ IF ~repoUrl
       THEN /\ calls' = Alongside(c, NoCall)
            /\ UNCHANGED lastCommitFiles
       ELSE LET table == IF calls[c].reset THEN [p \in Paths |-> Absent]
                         ELSE lastCommitFiles
            IN /\ lastCommitFiles' = table
               /\ calls' = Alongside(c,
                      IF calls[c].todo = <<>> THEN Saving(calls[c], table)
                      ELSE [calls[c] EXCEPT !.pc = "file"])
    /\ UNCHANGED <<envVars, schedVars, syncVars, pullVars, renameVars, asyncVars, bgVars, nCalls, trackingFile, load,
                   ev>>

\* getInfoAsync and readAsStringAsync of one file resolve; after the last
\* file saveTrackingData() is called in the same turn
it_file(c) ==
    /\ calls[c].op = "initializeTracking"
    /\ calls[c].pc = "file"
    /\ LET p == Head(calls[c].todo)
           table == TrackFile(lastCommitFiles, p, calls[c].files[p])
           rest == [calls[c] EXCEPT !.todo = Tail(calls[c].todo)]
       IN /\ lastCommitFiles' = table
          /\ calls' = Alongside(c,
                 IF rest.todo = <<>> THEN Saving(rest, table) ELSE rest)
    /\ UNCHANGED <<envVars, schedVars, syncVars, pullVars, renameVars, asyncVars, bgVars, nCalls, trackingFile, load,
                   ev>>

\* commit, case 'added' / 'modified' after the PUT answered with sha: the
\* tracking loop awaits readAsStringAsync of the file
cm_call(c, p, sha) ==
    /\ calls[c].op = "none"
    /\ nCalls < MaxCalls
    /\ local[p] # NoContent
    /\ nCalls' = nCalls + 1
    /\ calls' = [calls EXCEPT ![c] =
            [op |-> "commit", pc |-> "read", files |-> [q \in {p} |-> sha],
             reset |-> FALSE, todo |-> <<p>>, path |-> p, sha |-> sha,
             data |-> <<>>, before |-> <<>>, alone |-> FALSE]]
    /\ UNCHANGED <<envVars, schedVars, trackVars, syncVars, pullVars, renameVars, asyncVars, bgVars, trackingFile, load, ev>>

\* commit, tracking loop: lastCommitFiles.set, then saveTrackingData()
cm_set(c) ==
    /\ calls[c].op = "commit"
    /\ calls[c].pc = "read"
    /\ LET p == calls[c].path
           table == [lastCommitFiles EXCEPT
                        ![p] = [sha |-> calls[c].sha, content |-> local[p]]]
       IN /\ lastCommitFiles' = table
          /\ calls' = Alongside(c, Saving(calls[c], table))
    /\ UNCHANGED <<envVars, schedVars, syncVars, pullVars, renameVars, asyncVars, bgVars, nCalls, trackingFile, load,
                   ev>>

\* commit, case 'deleted' after the DELETE was accepted: lastCommitFiles.delete,
\* an empty tracking loop and saveTrackingData() in one turn
cm_delete(c, p) ==
    /\ calls[c].op = "none"
    /\ nCalls < MaxCalls
    /\ Tracked(p)
    /\ nCalls' = nCalls + 1
    /\ lastCommitFiles' = UntrackDeleted(p, TRUE)
    /\ calls' = Alongside(c,
           [op |-> "commit", pc |-> "saving", files |-> [q \in {} |-> NoSha],
            reset |-> FALSE, todo |-> <<>>, path |-> p, sha |-> NoSha,
            data |-> Snapshot(UntrackDeleted(p, TRUE)), before |-> <<>>,
            alone |-> FALSE])
    /\ UNCHANGED <<envVars, schedVars, syncVars, pullVars, renameVars, asyncVars, bgVars, trackingFile, load, ev>>

\* writeAsStringAsync(TRACKING_FILE, ...) of one caller completes and the
\* caller returns; nothing in the code orders the writes of two callers
save_lands(c) ==
    /\ calls[c].pc = "saving"
    /\ trackingFile' = calls[c].data
    /\ calls' = Alongside(c, NoCall)
    /\ UNCHANGED <<envVars, schedVars, trackVars, syncVars, pullVars, renameVars, asyncVars, bgVars, nCalls, load, ev>>

StoreNext ==
    \/ \E c \in Callers, files \in FileLists, reset \in BOOLEAN :
           it_call(c, files, reset)
    \/ \E c \in Callers : it_config(c)
    \/ \E c \in Callers : it_file(c)
    \/ \E c \in Callers, p \in Paths, sha \in Shas : cm_call(c, p, sha)
    \/ \E c \in Callers : cm_set(c)
    \/ \E c \in Callers, p \in Paths : cm_delete(c, p)
    \/ \E c \in Callers : save_lands(c)
    \/ removeRepoUrl

\* the table as a clone of content 1 left it, each path tracked or not, over
\* every combination of local files
InitStore ==
    /\ InitTracker
    /\ \A p \in Paths :
           lastCommitFiles[p] \in {Absent, [sha |-> ShaOf(1), content |-> 1]}

StoreSpec == InitStore /\ [][StoreNext]_vars

(***************************************************************************)
(* The start of the app: loadTrackingData() is called at module import and *)
(* not awaited, so the tracker's operations can run before it completes.   *)
(* The table in memory starts empty; the file is the one the previous      *)
(* session saved, or does not exist                                        *)
(***************************************************************************)
NoFile == <<>>

InitLoad ==
    /\ local \in [Paths -> {NoContent, 1}]
    /\ lastCommitFiles = [p \in Paths |-> Absent]
    /\ trackingFile \in {NoFile} \cup
           [Paths -> {Absent, [sha |-> ShaOf(1), content |-> 1]}]
    /\ load = "info"
    /\ arming = <<>>
    /\ syncInterval = NoHandle
    /\ appStateSubscription = NoHandle
    /\ intervals = {}
    /\ subscriptions = {}
    /\ nextHandle = 1
    /\ remote = [p \in Paths |-> Absent]
    /\ fileMetadata = [p \in Paths |-> NoSha]
    /\ token = TRUE
    /\ repoUrl = TRUE
    /\ nRemote = 0
    /\ nEdits = 0
    /\ pendingChanges = [p \in Paths |-> NoPending]
    /\ timers = {}
    /\ nextTimer = 1
    /\ activeCommits = {}
    /\ commits = <<>>
    /\ flushes = {}
    /\ scheduled = <<>>
    /\ replaced = {}
    /\ isSyncing = FALSE
    /\ runs = [s \in Slots |-> NoRun]
    /\ nSyncs = 0
    /\ pull = NoPull
    /\ nPulls = 0
    /\ calls = [c \in Callers |-> NoCall]
    /\ nCalls = 0
    /\ renaming = NoRename
    /\ nRenames = 0
    /\ reports = {}
    /\ ev = NoEvent

\* loadTrackingData: getInfoAsync(TRACKING_FILE) resolves
load_info ==
    /\ load = "info"
    /\ arming = <<>>
    /\ syncInterval = NoHandle
    /\ appStateSubscription = NoHandle
    /\ intervals = {}
    /\ subscriptions = {}
    /\ nextHandle = 1
    /\ load' = IF trackingFile = NoFile THEN "done" ELSE "read"
    /\ UNCHANGED <<envVars, schedVars, trackVars, syncVars, pullVars, renameVars, asyncVars, bgVars,
                   calls, nCalls, trackingFile, ev>>

\* loadTrackingData: readAsStringAsync resolves and the table is replaced by
\* new Map(Object.entries(data))
load_read ==
    /\ load = "read"
    /\ load' = "done"
    /\ lastCommitFiles' = trackingFile
    /\ calls' = [c \in Callers |-> [calls[c] EXCEPT !.alone = FALSE]]
    /\ UNCHANGED <<envVars, schedVars, syncVars, pullVars, renameVars, asyncVars, bgVars, nCalls,
                   trackingFile, ev>>

LoadNext ==
    \/ load_info
    \/ load_read
    \/ \E c \in Callers, files \in FileLists, reset \in BOOLEAN :
           it_call(c, files, reset)
    \/ \E c \in Callers : it_config(c)
    \/ \E c \in Callers : it_file(c)
    \/ \E c \in Callers, p \in Paths, sha \in Shas : cm_call(c, p, sha)
    \/ \E c \in Callers : cm_set(c)
    \/ \E c \in Callers, p \in Paths : cm_delete(c, p)
    \/ \E c \in Callers : save_lands(c)

LoadSpec == InitLoad /\ [][LoadNext]_vars

(***************************************************************************)
(* commitFile with its rename branch (githubSync.ts), as the editor's      *)
(* rename handler calls it, and the error each failure throws to it        *)
(***************************************************************************)
\* the message of the Error thrown, up to the text of the response
NoTokenError == "No GitHub token found"
DeleteError == "Failed to delete old file during rename"
ApiError == "GitHub API error"
FetchError == "Network request failed"

\* what had happened on the remote when commitFile threw
FailureOf(r) ==
    IF r.oldPath = NoPath THEN "write failed"
    ELSE IF r.deleted THEN "partial rename"
    ELSE IF r.pc = "delete" THEN "rename delete failed"
    ELSE "rename not started"

\* throw: the finally removes the path from activeCommits
Throws(message) ==
    /\ reports' = reports \cup {[error |-> message, failure |-> FailureOf(renaming)]}
    /\ renaming' = NoRename
    /\ activeCommits' = activeCommits \ {renaming.path}

\* the rename handler: oldPath and oldFileSha are passed only when the
\* note's metadata has a sha; commitFile runs up to await getToken()
rename_call(p, old, c) ==
    /\ renaming.pc = "idle"
    /\ nRenames < MaxRenames
    /\ old # p
    /\ nRenames' = nRenames + 1
    /\ renaming' = [NoRename EXCEPT !.pc = "token", !.path = p, !.content = c,
                       !.oldPath = IF fileMetadata[old] # NoSha THEN old ELSE NoPath,
                       !.oldFileSha = fileMetadata[old]]
    /\ activeCommits' = activeCommits \cup {p}
    /\ UNCHANGED <<envVars, pendingChanges, timers, nextTimer, fileMetadata, commits,
                   flushes, scheduled, replaced, trackVars, syncVars, pullVars,
                   storeVars, asyncVars, bgVars, reports, ev>>

\* getToken() resolves
rename_token ==
    /\ renaming.pc = "token"
    /\ IF ~token
       THEN Throws(NoTokenError)
       ELSE /\ renaming' = [renaming EXCEPT !.pc =
                               IF renaming.oldPath # NoPath THEN "delete" ELSE "get"]
            /\ UNCHANGED <<activeCommits, reports>>
    /\ UNCHANGED <<envVars, pendingChanges, timers, nextTimer, fileMetadata, commits,
                   flushes, scheduled, replaced, trackVars, syncVars, pullVars,
                   storeVars, asyncVars, bgVars, nRenames, ev>>

\* the DELETE of the old file answers (or the request fails)
rename_delete ==
    /\ renaming.pc = "delete"
    /\ \E net \in BOOLEAN :
         IF ~net
         THEN Throws(FetchError) /\ UNCHANGED <<remote, fileMetadata>>
         ELSE IF ~token \/ ~DeleteAccepted(renaming.oldPath, renaming.oldFileSha)
         THEN Throws(DeleteError) /\ UNCHANGED <<remote, fileMetadata>>
         ELSE /\ remote' = [remote EXCEPT ![renaming.oldPath] = Absent]
              /\ fileMetadata' = [fileMetadata EXCEPT ![renaming.oldPath] = NoSha]
              /\ renaming' = [renaming EXCEPT !.pc = "get", !.deleted = TRUE]
              /\ UNCHANGED <<activeCommits, reports>>
    /\ UNCHANGED <<local, token, repoUrl, nRemote, nEdits, pendingChanges, timers,
                   nextTimer, commits, flushes, scheduled, replaced, trackVars,
                   syncVars, pullVars, storeVars, asyncVars, bgVars, nRenames, ev>>

\* the GET of the new path answers: its sha is kept when the file exists
rename_get ==
    /\ renaming.pc = "get"
    /\ \E net \in BOOLEAN :
         IF ~net
         THEN Throws(FetchError) /\ UNCHANGED fileMetadata
         ELSE /\ renaming' = [renaming EXCEPT !.pc = "put",
                                 !.sha = IF token /\ RemoteExists(renaming.path)
                                         THEN RemoteSha(renaming.path) ELSE NoSha]
              /\ fileMetadata' = IF token /\ RemoteExists(renaming.path)
                                 THEN [fileMetadata EXCEPT ![renaming.path] =
                                          RemoteSha(renaming.path)]
                                 ELSE fileMetadata
              /\ UNCHANGED <<activeCommits, reports>>
    /\ UNCHANGED <<envVars, pendingChanges, timers, nextTimer, commits, flushes,
                   scheduled, replaced, trackVars, syncVars, pullVars, storeVars, asyncVars, bgVars,
                   nRenames, ev>>

\* the PUT of the new file answers
rename_put ==
    /\ renaming.pc = "put"
    /\ \E net \in BOOLEAN :
         IF ~net
         THEN Throws(FetchError) /\ UNCHANGED <<remote, fileMetadata>>
         ELSE IF ~token \/ ~PutAccepted(renaming.path, renaming.sha)
         THEN Throws(ApiError) /\ UNCHANGED <<remote, fileMetadata>>
         ELSE /\ remote' = [remote EXCEPT ![renaming.path] =
                                Stored(decodeBase64(encodeBase64(renaming.content)))]
              /\ fileMetadata' = [fileMetadata EXCEPT ![renaming.path] =
                                      ShaOf(renaming.content)]
              /\ renaming' = NoRename
              /\ activeCommits' = activeCommits \ {renaming.path}
              /\ UNCHANGED reports
    /\ UNCHANGED <<local, token, repoUrl, nRemote, nEdits, pendingChanges, timers,
                   nextTimer, commits, flushes, scheduled, replaced, trackVars,
                   syncVars, pullVars, storeVars, asyncVars, bgVars, nRenames, ev>>

RenameNext ==
    \/ \E p \in Paths, old \in Paths, c \in Contents : rename_call(p, old, c)
    \/ rename_token
    \/ rename_delete
    \/ rename_get
    \/ rename_put
    \/ \E p \in Paths, c \in Contents \cup {NoContent} : remoteChange(p, c)
    \/ removeToken

RenameSpec == Init /\ [][RenameNext]_vars

(***************************************************************************)
(* Properties of the commit scheduler                                      *)
(***************************************************************************)
InFlight(p) == {i \in DOMAIN commits : commits[i].path = p /\ commits[i].pc \in InFlightPcs}

\* C1 (coalescing law): the content of a scheduleCommit call that was
\* followed by another call for the same path while still pending is never
\* passed to commitFile; what commitFile receives, from the timer or from
\* commitAllPendingChanges, is the path and content of a call that was not
\* replaced.
C1_CoalescingLaw ==
    \A i \in DOMAIN commits :
        /\ commits[i].sid \notin replaced
        /\ commits[i].sid \in DOMAIN scheduled
        /\ commits[i].path = scheduled[commits[i].sid].path
        /\ commits[i].content = scheduled[commits[i].sid].content

C1_Witness ==
    \E i \in DOMAIN commits : \E s \in replaced :
        /\ scheduled[s].path = commits[i].path
        /\ scheduled[s].content # commits[i].content
        /\ commits[i].sid > s
        /\ commits[i].pc = "done"

\* C2: for each path at most one commitFile invocation is between its start
\* and its completion.
C2_OneWriteInFlightPerPath ==
    \A p \in Paths : Cardinality(InFlight(p)) <= 1

\* C4: a scheduled commit whose PUT succeeded found the remote at the sha
\* remembered for the path (there is no conflict prompt in commitFile, so a
\* PUT over a remote that moved is a PUT without a user choice).
C4_NoSilentOverwrite ==
    \A i \in DOMAIN commits :
        commits[i].pc = "done" => commits[i].sha = commits[i].known

\* C5: once a scheduled commit has succeeded and the remote still holds what
\* it wrote, the tracker holds the new sha and the committed content.
C5_TrackerUpdatedAfterCommit ==
    \A i \in DOMAIN commits :
        (commits[i].pc = "done" /\ remote[commits[i].path] = Stored(commits[i].content))
            => lastCommitFiles[commits[i].path] =
                   [sha |-> ShaOf(commits[i].content), content |-> commits[i].content]

(***************************************************************************)
(* Properties of the orchestrator                                          *)
(***************************************************************************)
\* both sides changed since the last sync point of the path
ConflictAt(p) ==
    /\ Tracked(p)
    /\ RemoteExists(p)
    /\ RemoteSha(p) # lastCommitFiles[p].sha
    /\ local[p] # NoContent
    /\ local[p] # lastCommitFiles[p].content

BodyStarted(s) == runs[s].pc \notin {"idle", "config", "status"}

\* C3: while the tracked hash of a path differs from the remote's hash and
\* the local content differs from the cached snapshot, no step of syncFile
\* writes the path to the remote or to the local file system unless the
\* user has answered the conflict prompt.
C3_NoWriteBeforeChoice ==
    [][\A s \in Slots :
          (/\ runs[s].pc \in SyncFilePcs
           /\ ev'.slot = s
           /\ ev'.op \in {"put", "delete", "lwrite"}
           /\ ev'.ok
           /\ ConflictAt(runs[s].cur.path))
          => runs[s].choice # "none"]_vars

\* C6: at most one invocation of performSync / performFullSync is past the
\* guard at any time, and an invocation that finds isSyncing set changes
\* neither the remote, the local files, the tracker, isSyncing nor the
\* invocation in progress.
C6_ReentrancyGuard ==
    /\ [](Cardinality({s \in Slots : Active(s)}) <= 1)
    /\ [][ev'.op = "dropped" =>
            UNCHANGED <<remote, local, lastCommitFiles, isSyncing, runs>>]_vars

C6_Witness ==
    /\ ev.op = "dropped"
    /\ isSyncing
    /\ \E s \in Slots : BodyStarted(s)

\* C7: a step of syncFile / commit whose remote request fails leaves every
\* local file and every tracked entry as it was, and ends syncFile for that
\* change.
C7_FailureKeepsLocalData ==
    [][\A s \in Slots :
          (/\ runs[s].pc \in SyncFilePcs
           /\ ev'.slot = s
           /\ ev'.op \in {"get", "put", "delete"}
           /\ ~ev'.ok)
          => /\ local' = local
             /\ lastCommitFiles' = lastCommitFiles
             /\ runs'[s].pc \in {"idle", "sf_get", "f_get"}]_vars

C7_Witness ==
    /\ ev.op \in {"put", "delete"}
    /\ ~ev.ok
    /\ ev.by = "performSync"
    /\ Tracked(ev.path)
    /\ lastCommitFiles[ev.path].content # local[ev.path]

\* C8: when performFullSync returns, every path that was tracked and absent
\* from the remote listing has no local file and no tracked entry.
C8_DeletionPropagation ==
    [][\A s \in Slots :
          (/\ runs[s].kind = "full"
           /\ BodyStarted(s)
           /\ ev'.slot = s
           /\ ev'.end = "returned")
          => \A p \in Paths :
                (Tracked(p) /\ p \notin runs[s].listed)
                    => (local'[p] = NoContent /\ lastCommitFiles'[p] = Absent)]_vars

\* C9: no step of performFullSync or syncFromGitHub deletes or modifies a
\* local file that is absent from the remote (and from the listing the
\* operation took) and has no tracked entry.
C9_NewLocalFilesLeftAlone ==
    [][\A p \in Paths :
          (/\ ev'.by \in {"performFullSync", "syncFromGitHub"}
           /\ local[p] # NoContent
           /\ ~Tracked(p)
           /\ ~RemoteExists(p)
           /\ p \notin pull.listing
           /\ \A s \in Slots : p \notin runs[s].listed)
          => local'[p] = local[p]]_vars

C11_ConflictCanBeDeferred ==
    \A s \in Slots :
        runs[s].pc = "sf_prompt"
            => ENABLED (/\ syncFile_choice(s)
                        /\ runs'[s].pc \notin SyncFilePcs
                        /\ UNCHANGED <<local, remote, lastCommitFiles>>)

\* C12: the cached content of every tracked entry is the content the remote
\* stores under the tracked hash (the hash of the cached content is the
\* tracked hash).
C12_CachedContentMatchesHash ==
    \A p \in Paths :
        Tracked(p) => lastCommitFiles[p].sha = ShaOf(lastCommitFiles[p].content)

(***************************************************************************)
(* Properties of the commit scheduler, continued                           *)
(***************************************************************************)
\* isActivelyCommitting(path)
isActivelyCommitting(p) == p \in activeCommits

\* C13: isActivelyCommitting(path) is true exactly while a commitFile for the
\* path is between its start and its completion or failure; in particular
\* it is false for a path that is only scheduled and never false while a
\* commitFile for the path is in flight.
C13_ActiveIffInFlight ==
    \A p \in Paths : isActivelyCommitting(p) <=> InFlight(p) # {}

\* a commitAllPendingChanges call has started a write and no scheduleCommit
\* call was made since
FlushedSinceLastSchedule ==
    \E i \in DOMAIN commits : commits[i].via = "flush" /\ commits[i].at = nextTimer

\* C14 (flush idempotence): a commitAllPendingChanges call starts at most one
\* commitFile per path, and a call that follows another one with no
\* scheduleCommit call in between starts none, also when the earlier call is
\* still awaiting its writes: the two calls together write each path at most
\* once.
C14_FlushIdempotence ==
    [][commitAllPendingChanges =>
          /\ \A p \in Paths :
                Cardinality({i \in DOMAIN commits' \ DOMAIN commits :
                                commits'[i].path = p}) <= 1
          /\ FlushedSinceLastSchedule => commits' = commits]_vars

C14_Witness ==
    /\ FlushedSinceLastSchedule
    /\ \A p \in Paths : pendingChanges[p] = NoPending
    /\ \E f \in flushes : \E i \in f.cids :
          /\ commits[i].pc \in InFlightPcs
          /\ commits[i].at = nextTimer

\* the latest scheduleCommit call for a path
LatestCall(p) ==
    CHOOSE k \in DOMAIN scheduled :
        /\ scheduled[k].path = p
        /\ \A j \in DOMAIN scheduled : scheduled[j].path = p => j <= k

\* C15: (a) a commitAllPendingChanges call leaves no pending entry and no
\* live timer, and starts, for every path that was pending, one commitFile
\* with the content of the latest scheduleCommit call for the path; (b) when
\* the call resolves, every commitFile it started has completed or failed
\* and none of the entries it took is pending; (c) a call with nothing
\* pending starts no commitFile and changes nothing.
C15_FlushAll ==
    [][/\ commitAllPendingChanges =>
            /\ \A p \in Paths : pendingChanges'[p] = NoPending
            /\ timers' = {}
            /\ \A p \in Paths :
                  pendingChanges[p] # NoPending =>
                     \E i \in DOMAIN commits' \ DOMAIN commits :
                        /\ commits'[i].path = p
                        /\ commits'[i].content = scheduled[LatestCall(p)].content
                        /\ commits'[i].pc \in InFlightPcs
                        /\ p \in activeCommits'
            /\ (\A p \in Paths : pendingChanges[p] = NoPending)
                  => UNCHANGED <<remote, local, lastCommitFiles, pendingChanges, timers,
                                 activeCommits, fileMetadata, commits, flushes>>
       /\ \A f \in flushes :
            flushResolves(f) =>
               \A i \in f.cids :
                  /\ commits[i].pc \in {"done", "failed"}
                  /\ pendingChanges'[commits[i].path].sid # commits[i].sid]_vars

C15_Witness ==
    \E i \in DOMAIN commits : \E j \in DOMAIN commits :
        /\ commits[i].via = "flush" /\ commits[j].via = "flush"
        /\ commits[i].at = commits[j].at
        /\ commits[i].path # commits[j].path
        /\ commits[i].pc = "done" /\ commits[j].pc = "failed"
        /\ \A f \in flushes : i \notin f.cids

\* C16: every path has at most one pending entry (pendingChanges is keyed by
\* path) and at most one live timer; a live timer is the timer of the
\* pending entry of its path and was armed by the latest scheduleCommit call
\* for the path, so the timer of every earlier call has been cancelled or
\* has fired.
C16_OnePendingPerPath ==
    /\ \A p \in Paths : Cardinality({t \in timers : t.path = p}) <= 1
    /\ \A t \in timers :
          /\ pendingChanges[t.path] # NoPending
          /\ pendingChanges[t.path].timeout = t.id
          /\ t.id = LatestCall(t.path)
    /\ \A p \in Paths :
          pendingChanges[p] # NoPending
              => [id |-> pendingChanges[p].timeout, path |-> p] \in timers

C16_Witness ==
    \E t \in timers : \E s \in replaced :
        /\ scheduled[s].path = t.path
        /\ s < t.id
        /\ pendingChanges[t.path].content = scheduled[t.id].content

\* hasPendingChanges(path)
hasPendingChanges(p) == pendingChanges[p] # NoPending

\* C17: the step in which a commitFile started by a timer or by
\* commitAllPendingChanges fails changes no pending entry, arms no timer and
\* changes no local file; the entry the write was started from is not pending
\* (hasPendingChanges is false unless scheduleCommit was called again); the
\* failure ends neither the commitAllPendingChanges invocation awaiting the
\* write nor any other write.
C17_FailedWriteStaysCleared ==
    [][\A i \in DOMAIN commits :
          (commits[i].pc \in InFlightPcs /\ commits'[i].pc = "failed")
          => /\ pendingChanges' = pendingChanges
             /\ timers' = timers
             /\ local' = local
             /\ (hasPendingChanges(commits[i].path)
                    => pendingChanges[commits[i].path].sid > commits[i].sid)
             /\ flushes' = flushes
             /\ \A j \in DOMAIN commits : j # i => commits'[j] = commits[j]]_vars

C17_Witness ==
    \E i \in DOMAIN commits : \E j \in DOMAIN commits :
        /\ commits[i].via = "timer" /\ commits[i].pc = "failed"
        /\ commits[j].via = "flush" /\ commits[j].pc = "failed"
        /\ ~hasPendingChanges(commits[i].path)
        /\ ~hasPendingChanges(commits[j].path)
        /\ timers = {}
        /\ flushes = {}

(***************************************************************************)
(* Properties of the orchestrator, continued                               *)
(***************************************************************************)
\* C18: an invocation of performSync or performFullSync that finds the
\* access token or the repository URL absent when it reads the configuration
\* ends there without an error to its caller, having issued no remote
\* request and changed no local file and no tracked entry.
C18_SyncDisabledWithoutBinding ==
    [][\A s \in Slots :
          (/\ runs[s].pc = "config"
           /\ ev'.slot = s
           /\ ev'.op = "config"
           /\ (~token \/ ~repoUrl))
          => /\ ev'.end = "returned"
             /\ ~Active(s)'
             /\ UNCHANGED <<remote, local, lastCommitFiles>>]_vars

\* C19: once the access token and the repository URL have been removed, a
\* performSync invocation that is iterating over its changes completes no
\* further remote read or write.
C19_HardStopOnRemoval ==
    [][\A s \in Slots :
          (/\ runs[s].kind = "sync"
           /\ BodyStarted(s)
           /\ ~token /\ ~repoUrl
           /\ ev'.slot = s
           /\ ev'.op \in {"get", "put", "delete"})
          => ~ev'.ok]_vars

\* C20: in performSync and in performFullSync, when the remote read or write
\* for one file fails while other files of the pass are still to be
\* processed, the invocation goes on with the next of them.
C20_FailureDoesNotAbortBatch ==
    [][\A s \in Slots :
          (/\ BodyStarted(s)
           /\ runs[s].pc # "list"
           /\ ev'.slot = s
           /\ ev'.op \in {"get", "put", "delete"}
           /\ ~ev'.ok
           /\ runs[s].todo # <<>>)
          => /\ Active(s)'
             /\ runs'[s].cur = Head(runs[s].todo)
             /\ runs'[s].todo = Tail(runs[s].todo)]_vars

\* C21: when performFullSync returns, no local or remote change and no
\* removal of the configuration having happened while it ran, every path of
\* the remote listing that status() had not reported (in particular a path
\* that was neither present locally nor tracked) has a local file with the
\* remote's content and a tracked entry with the remote's hash and that
\* content.
C21_FullSyncDownloads ==
    [][\A s \in Slots :
          (/\ runs[s].kind = "full"
           /\ BodyStarted(s)
           /\ runs[s].quiet
           /\ ev'.slot = s
           /\ ev'.end = "returned")
          => \A p \in runs[s].listed \ runs[s].modified :
                /\ remote'[p] # Absent
                /\ local'[p] # NoContent
                /\ local'[p] = decodeBase64(remote'[p].content)
                /\ lastCommitFiles'[p] = [sha |-> remote'[p].sha, content |-> local'[p]]]_vars

C21_Witness ==
    /\ ev.by = "performFullSync"
    /\ ev.op = "track"
    /\ ev.end = "returned"
    /\ ev.path = 2
    /\ nEdits = 0
    /\ token /\ repoUrl
    /\ RemoteExists(2)
    /\ local[2] = decodeBase64(remote[2].content)
    /\ lastCommitFiles[2] = [sha |-> RemoteSha(2), content |-> local[2]]

\* C22: when performFullSync returns, no local or remote change and no
\* removal of the configuration having happened while it ran, every local
\* file that is absent from the remote listing and has no tracked entry has
\* been written to the remote and is tracked.
C22_FullSyncUploadsNewFiles ==
    [][\A s \in Slots :
          (/\ runs[s].kind = "full"
           /\ BodyStarted(s)
           /\ runs[s].pc # "list"
           /\ runs[s].quiet
           /\ ev'.slot = s
           /\ ev'.end = "returned")
          => \A p \in Paths :
                (local[p] # NoContent /\ p \notin runs[s].listed /\ ~Tracked(p))
                => /\ remote'[p] = Stored(local'[p])
                   /\ Tracked(p)']_vars

\* C23: when performSync processes the 'deleted' change of a tracked path
\* that has no local file and that the remote no longer has either, the
\* tracked entry of the path is removed (so that later status() calls no
\* longer report the path).
C23_UntrackedAfterBothDeleted ==
    [][\A s \in Slots : \A p \in Paths :
          (/\ runs[s].kind = "sync"
           /\ runs[s].pc = "cm_put"
           /\ runs[s].cur.path = p
           /\ runs[s].cur.status = "deleted"
           /\ local[p] = NoContent
           /\ ~RemoteExists(p)
           /\ ev'.slot = s)
          => /\ lastCommitFiles'[p] = Absent
             /\ StatusOf(p)' = "none"]_vars

(***************************************************************************)
(* Properties of the tracker                                               *)
(***************************************************************************)
\* the paths of the entries status() returns
Reported == {status[k].path : k \in DOMAIN status}

\* C24: whenever performSync, performFullSync or syncFile calls status(),
\* the result has no entry for a tracked path whose local file exists with
\* content identical to the cached content, and every tracked path without
\* an entry has a local file with content identical to the cached content.
C24_StatusSilentIffUnchanged ==
    [][\A s \in Slots :
          (runs[s].pc \in {"status", "sf_status"} /\ ev'.slot = s)
          => \A p \in Paths :
                Tracked(p) =>
                   (p \notin Reported
                       <=> (local[p] # NoContent
                              /\ local[p] = lastCommitFiles[p].content))]_vars

\* the entries status() returns for a path
EntriesFor(p) == {k \in DOMAIN status : status[k].path = p}

\* C25: whenever performSync calls status(), the result has exactly one
\* entry for a local file with no tracked entry ('added'), for a tracked
\* local file whose content differs from the cached content ('modified',
\* with the tracked hash) and for a tracked path with no local file
\* ('deleted', with the tracked hash); no path has two entries and no entry
\* has another kind or another path.
C25_StatusClassifiesOnce ==
    [][\A s \in Slots :
          (runs[s].pc = "status" /\ ev'.slot = s)
          => /\ \A p \in Paths :
                  /\ Cardinality(EntriesFor(p)) <= 1
                  /\ (local[p] # NoContent /\ ~Tracked(p))
                        => \E k \in EntriesFor(p) : status[k].status = "added"
                  /\ (local[p] # NoContent /\ Tracked(p)
                         /\ local[p] # lastCommitFiles[p].content)
                        => \E k \in EntriesFor(p) :
                              /\ status[k].status = "modified"
                              /\ status[k].sha = lastCommitFiles[p].sha
                  /\ (local[p] = NoContent /\ Tracked(p))
                        => \E k \in EntriesFor(p) :
                              /\ status[k].status = "deleted"
                              /\ status[k].sha = lastCommitFiles[p].sha
                  /\ (local[p] = NoContent /\ ~Tracked(p)) => EntriesFor(p) = {}
             /\ \A k \in DOMAIN status :
                  /\ status[k].path \in Paths
                  /\ status[k].status \in {"added", "modified", "deleted"}
             /\ runs'[s].pc = "idle" \/ <<runs'[s].cur>> \o runs'[s].todo = status]_vars

C25_Witness ==
    \E s \in Slots :
        /\ ev.op = "status"
        /\ ev.slot = s
        /\ runs[s].todo # <<>>
        /\ {runs[s].cur.status, Head(runs[s].todo).status} \in
              {{"added", "deleted"}, {"modified", "deleted"}}
        /\ Tracked(Head(runs[s].todo).path)
        /\ Head(runs[s].todo).sha = lastCommitFiles[Head(runs[s].todo).path].sha


(***************************************************************************)
(* Properties of the tracking table and of its copy on disk                *)
(***************************************************************************)
\* what initializeTracking(files, reset) is said to leave in the table
InitializedAs(files, reset, before, table) ==
    IF reset
    THEN \A p \in Paths :
             table[p] = IF p \in DOMAIN files /\ local[p] # NoContent
                        THEN [sha |-> files[p], content |-> local[p]]
                        ELSE Absent
    ELSE \A p \in Paths :
             (p \notin DOMAIN files \/ local[p] = NoContent) => table[p] = before[p]

\* C26: when a call of initializeTracking(files, reset) that had the table
\* for itself returns, with reset true the tracked entries are exactly those
\* of the files that exist locally, and with reset false the entries of
\* paths outside files and of files missing locally are as they were.
C26_InitializeTrackingEffect ==
    [][\A c \in Callers :
          (/\ calls[c].op = "initializeTracking"
           /\ calls[c].alone
           /\ calls'[c].op = "none")
          => InitializedAs(calls[c].files, calls[c].reset, calls[c].before,
                           lastCommitFiles')]_vars

Writers == {c \in Callers : calls[c].pc = "saving"}

\* C27: at most one write of the tracking file is in progress at any time,
\* and when no initializeTracking or commit is in progress the file holds
\* the table that is in memory.
C27_OneWriterAtATime ==
    /\ Cardinality(Writers) <= 1
    /\ (\A c \in Callers : calls[c].op = "none") => trackingFile = lastCommitFiles


(***************************************************************************)
(* Properties of the errors of commitFile                                  *)
(***************************************************************************)
\* C28: the error thrown for a rename whose delete succeeded and whose
\* create failed differs from every error thrown for a rename whose delete
\* failed and from every error thrown for a write that is not a rename.
C28_PartialRenameIsDistinct ==
    \A r1, r2 \in reports :
        (/\ r1.failure = "partial rename"
         /\ r2.failure \in {"rename delete failed", "write failed"})
        => r1.error # r2.error


(***************************************************************************)
(* Properties of the two answers to a conflict                             *)
(***************************************************************************)
\* C29: after 'keep local' the commit sends the local content with the hash
\* getFileInfo read for this file as the expected hash; when the PUT is
\* accepted the remote holds the local content, and the tracking step that
\* follows stores the hash the remote returned with the local content; the
\* local file is not written.  The tracking part is stated for invocations
\* during which the user and the remote made no change.
C29_KeepLocal ==
    [][\A s \in Slots : \A p \in Paths :
          (/\ runs[s].choice = "local"
           /\ runs[s].cur.path = p
           /\ ev'.slot = s)
          => /\ local' = local
             /\ runs[s].pc = "cm_put"
                   => /\ runs[s].cur.sha = runs[s].gh.sha
                      /\ ev'.op \in {"put", "lread"}
                      /\ IF ev'.op = "put" /\ ev'.ok
                         THEN /\ remote' = [remote EXCEPT ![p] = Stored(local[p])]
                              /\ runs'[s].pc = "cm_track"
                         ELSE remote' = remote
             /\ runs[s].pc = "cm_track"
                   => /\ remote' = remote
                      /\ runs[s].quiet
                            => /\ remote[p] = Stored(local[p])
                               /\ lastCommitFiles'[p] =
                                     [sha |-> remote[p].sha, content |-> local[p]]]_vars

\* C30: after 'take remote' the local file gets the content getFileInfo read,
\* the tracking step stores the hash getFileInfo read with that content, and
\* no step of the resolution writes to the remote.  The tracking part is
\* stated for invocations during which the user and the remote made no
\* change.
C30_TakeRemote ==
    [][\A s \in Slots : \A p \in Paths :
          (/\ runs[s].choice = "remote"
           /\ runs[s].cur.path = p
           /\ ev'.slot = s)
          => /\ remote' = remote
             /\ ev'.op \in {"lwrite", "track"}
             /\ runs[s].pc = "sf_write"
                   => /\ local' = [local EXCEPT ![p] = runs[s].gh.content]
                      /\ runs'[s].pc = "sf_track"
             /\ (runs[s].pc = "sf_track" /\ runs[s].quiet)
                   => /\ local' = local
                      /\ local[p] = runs[s].gh.content
                      /\ lastCommitFiles'[p] =
                            [sha |-> runs[s].gh.sha, content |-> runs[s].gh.content]]_vars

\* the remote version was written over the local one after 'take remote'
C30_Witness ==
    \E s \in Slots :
        /\ runs[s].choice = "remote"
        /\ runs[s].pc = "sf_track"
        /\ runs[s].quiet
        /\ ev = Event("lwrite", runs[s].cur.path, TRUE, "performSync", s, "no")
        /\ local[runs[s].cur.path] = decodeBase64(remote[runs[s].cur.path].content)
        /\ local[runs[s].cur.path] = OtherDevice
        /\ lastCommitFiles[runs[s].cur.path].content # local[runs[s].cur.path]


(***************************************************************************)
(* Properties of the isSyncing flag                                        *)
(***************************************************************************)
\* C31: isSyncing is true only while an invocation of performSync or
\* performFullSync that passed the guard is running, and in the state an
\* invocation leaves when it ends (return, early return or throw) it is
\* false.
C31_FlagResetOnEveryEnd ==
    /\ isSyncing => \E s \in Slots : Active(s)
    /\ (ev.end \in {"returned", "threw"} /\ ev.op # "dropped") => ~isSyncing

\* a performFullSync that had set the flag has thrown
C31_Witness ==
    /\ ev.by = "performFullSync"
    /\ ev.end = "threw"
    /\ ev.op \in {"list", "get"}
    /\ ~isSyncing
    /\ \A s \in Slots : ~Active(s)


(***************************************************************************)
(* Properties of the local files during a sync                             *)
(***************************************************************************)
\* C32: while syncFile handles a change of kind 'added' or 'deleted' whose
\* path is on the remote under another hash than the change's, it writes
\* the local file only after the user chose the remote version.
C32_NoSilentOverwrite ==
    [][\A s \in Slots :
          (/\ runs[s].pc \in SyncFilePcs
           /\ runs[s].cur.status \in {"added", "deleted"}
           /\ runs[s].gh # Absent
           /\ runs[s].gh.sha # runs[s].cur.sha
           /\ ev'.slot = s
           /\ ev'.op = "lwrite"
           /\ local' # local)
          => runs[s].choice = "remote"]_vars


\* C33: a local file that is edited after performFullSync took its status()
\* snapshot (it is not in the snapshot, and differs from the tracked content
\* now) is not replaced by the step that writes the remote content.
C33_FullSyncKeepsLateEdits ==
    [][\A s \in Slots : \A p \in Paths :
          (/\ runs[s].kind = "full"
           /\ runs[s].pc = "f_write"
           /\ runs[s].cur.path = p
           /\ p \notin runs[s].modified
           /\ Tracked(p)
           /\ local[p] \notin {NoContent, lastCommitFiles[p].content}
           /\ ev'.slot = s)
          => local'[p] = local[p]]_vars


(***************************************************************************)
(* Properties of the startup load                                          *)
(***************************************************************************)
\* the step is the reset of an initializeTracking(files, true)
ResetStep ==
    \E c \in Callers : /\ calls[c].op = "initializeTracking"
                       /\ calls[c].pc = "config"
                       /\ calls[c].reset
                       /\ repoUrl
                       /\ calls'[c].pc # "config"

\* the step is the untracking of p after its DELETE was accepted
DeleteStep(p) ==
    \E c \in Callers : /\ calls[c].op = "none"
                       /\ calls'[c].op = "commit"
                       /\ calls'[c].pc = "saving"
                       /\ calls'[c].path = p

\* C34: an entry of the table in memory disappears only in the reset of
\* initializeTracking or in the untracking of its path by commit, also
\* while loadTrackingData has not completed.
C34_NoEntryLostToLoad ==
    [][\A p \in Paths :
          (Tracked(p) /\ lastCommitFiles'[p] = Absent)
          => (ResetStep \/ DeleteStep(p))]_vars


(***************************************************************************)
(* Properties of the scheduleCommit that reads the remote first            *)
(***************************************************************************)
\* C35: of two invocations for one path that have both stored their entry,
\* the entry held is not that of the earlier one, and no commitFile of the
\* earlier content starts after one of the later content.
C35_LastCallWins ==
    \A i, j \in DOMAIN arming :
        (/\ i < j
         /\ arming[i].path = arming[j].path
         /\ arming[i].pc = "armed"
         /\ arming[j].pc = "armed")
        => /\ pendingChanges[arming[i].path].sid # i
           /\ \A k, l \in DOMAIN commits :
                  (commits[k].sid = j /\ commits[l].sid = i) => l < k


(***************************************************************************)
(* Properties of the scheduled contents                                    *)
(***************************************************************************)
\* C36: no two invocations of commitFile carry the content of the same
\* scheduleCommit call, whether they were started by the timer callback or
\* by commitAllPendingChanges.
C36_CommittedAtMostOnce ==
    \A k, l \in DOMAIN commits :
        (k # l /\ commits[k].via \in {"timer", "flush"}
               /\ commits[l].via \in {"timer", "flush"})
        => commits[k].sid # commits[l].sid

\* one content was taken by its timer and a later commitAllPendingChanges
\* took the content scheduled after it for the same path
C36_Witness ==
    \E k, l \in DOMAIN commits :
        /\ k < l
        /\ commits[k].path = commits[l].path
        /\ commits[k].via = "timer"
        /\ commits[l].via = "flush"
        /\ pendingChanges[commits[k].path] = NoPending
        /\ timers = {}


\* the content of the i-th scheduleCommit call has been passed to commitFile
\* as it was scheduled, by the timer callback or by commitAllPendingChanges
Committed(i) ==
    \E k \in DOMAIN commits :
        /\ commits[k].sid = i
        /\ commits[k].via \in {"timer", "flush"}
        /\ commits[k].path = scheduled[i].path
        /\ commits[k].content = scheduled[i].content

\* C37: once scheduleCommit has been called for the i-th time, its content
\* is eventually passed to commitFile as scheduled, or the call is replaced
\* by a later scheduleCommit for the same path.
C37_EventuallyCommitted ==
    \A i \in TimerIds :
        (i \in DOMAIN scheduled) ~> (i \in replaced \/ Committed(i))

\* a content that was never replaced has been passed to commitFile by its
\* timer, and another one by commitAllPendingChanges
C37_Witness ==
    \E i, j \in DOMAIN scheduled :
        /\ i \notin replaced /\ j \notin replaced
        /\ Committed(i) /\ Committed(j)
        /\ \E k, l \in DOMAIN commits :
               /\ commits[k].sid = i /\ commits[k].via = "timer"
               /\ commits[l].sid = j /\ commits[l].via = "flush"


(***************************************************************************)
(* Convergence of the full reconciliation                                  *)
(***************************************************************************)
\* C38: when performFullSync returns after running its loop, status() having
\* reported no local change at its start and no local or remote change and
\* no removal of the configuration having happened while it ran, every file
\* of the remote has a local copy with the remote's content and a tracked
\* entry with the remote's hash, and status() then reports none of them.
C38_FullSyncConverges ==
    [][\A s \in Slots :
          (/\ runs[s].kind = "full"
           /\ BodyStarted(s)
           /\ runs[s].quiet
           /\ runs[s].modified = {}
           /\ ev'.slot = s
           /\ ev'.end = "returned")
          => \A p \in Paths :
                RemoteExists(p)'
                => /\ local'[p] = decodeBase64(remote'[p].content)
                   /\ lastCommitFiles'[p].sha = remote'[p].sha
                   /\ \A k \in DOMAIN status' : status'[k].path # p]_vars

\* a full sync has returned after bringing a file another device had
\* rewritten and a file another device had added up to date
C38_Witness ==
    /\ ev.by = "performFullSync"
    /\ ev.op = "track"
    /\ ev.end = "returned"
    /\ nEdits = 0
    /\ nRemote > 0
    /\ token /\ repoUrl
    /\ \A p \in Paths :
          /\ RemoteExists(p)
          /\ local[p] = decodeBase64(remote[p].content)
          /\ lastCommitFiles[p].sha = RemoteSha(p)
          /\ StatusOf(p) = "none"


(***************************************************************************)
(* Properties of the background sync                                       *)
(***************************************************************************)
\* C39: there is at most one periodic timer and at most one app-state
\* listener, the listener exists exactly when the timer exists, and while
\* the module holds no timer handle (before the first start and after a
\* stop) neither exists, so nothing can trigger performSync.
C39_ArmedAtMostOnce ==
    /\ Cardinality(intervals) <= 1
    /\ Cardinality(subscriptions) <= 1
    /\ (subscriptions # {}) <=> (intervals # {})
    /\ syncInterval = NoHandle => (intervals = {} /\ subscriptions = {})
    /\ syncInterval # NoHandle => (intervals = {syncInterval}
                                   /\ subscriptions = {appStateSubscription})

\* background sync was started, stopped, started again and stopped again,
\* and a sync it triggered has run
C39_Witness ==
    /\ nextHandle > MaxStarts
    /\ syncInterval = NoHandle
    /\ intervals = {}
    /\ nSyncs > 0

====
